---- MODULE Spec2Model ----
(***************************************************************************)
(* Model of the ln-types crate: the Amount type of src/src/amount.rs.      *)
(*                                                                         *)
(* A u64 does not fit TLC's integers, so a 64-bit value is kept exactly as *)
(* a little-endian sequence of base-1000 limbs without leading zero limbs  *)
(* (zero is <<>>).  The operators BAdd .. BDivMod are exact natural-number *)
(* arithmetic on that representation; the u64 operators of Rust (wrapping  *)
(* or checked) are defined on top of them with the modulus 2^64.           *)
(***************************************************************************)
EXTENDS Integers, Sequences, FiniteSets

\* ------------------------------------------------------------------------
\* Exact naturals as limb sequences

Limb == 10 * 10 * 10

RECURSIVE Norm(_)
Norm(s) ==
    IF s = <<>> THEN <<>>
    ELSE IF s[Len(s)] = 0 THEN Norm(SubSeq(s, 1, Len(s) - 1))
    ELSE s

RECURSIVE Big(_)
Big(n) == IF n = 0 THEN <<>> ELSE <<n % Limb>> \o Big(n \div Limb)

LimbAt(s, i) == IF i <= Len(s) THEN s[i] ELSE 0

RECURSIVE LessFrom(_, _, _)
LessFrom(a, b, i) ==
    IF i = 0 THEN FALSE
    ELSE IF a[i] # b[i] THEN a[i] < b[i]
    ELSE LessFrom(a, b, i - 1)

BLess(a, b) == IF Len(a) # Len(b) THEN Len(a) < Len(b) ELSE LessFrom(a, b, Len(a))
BLeq(a, b) == ~BLess(b, a)

RECURSIVE AddFrom(_, _, _, _)
AddFrom(a, b, i, c) ==
    IF i > Len(a) /\ i > Len(b)
    THEN (IF c = 0 THEN <<>> ELSE <<c>>)
    ELSE LET t == LimbAt(a, i) + LimbAt(b, i) + c
         IN  <<t % Limb>> \o AddFrom(a, b, i + 1, t \div Limb)

BAdd(a, b) == AddFrom(a, b, 1, 0)

\* a - b for b <= a
RECURSIVE SubFrom(_, _, _, _)
SubFrom(a, b, i, c) ==
    IF i > Len(a) THEN <<>>
    ELSE LET t == a[i] - LimbAt(b, i) - c
         IN  IF t < 0 THEN <<t + Limb>> \o SubFrom(a, b, i + 1, 1)
             ELSE <<t>> \o SubFrom(a, b, i + 1, 0)

BSub(a, b) == Norm(SubFrom(a, b, 1, 0))

\* a * m for a machine-small m (0 <= m < Limb)
RECURSIVE MulSmallFrom(_, _, _, _)
MulSmallFrom(a, m, i, c) ==
    IF i > Len(a) THEN (IF c = 0 THEN <<>> ELSE <<c>>)
    ELSE LET t == a[i] * m + c
         IN  <<t % Limb>> \o MulSmallFrom(a, m, i + 1, t \div Limb)

BMulSmall(a, m) == IF m = 0 THEN <<>> ELSE MulSmallFrom(a, m, 1, 0)

\* a * Limb
ShiftLimb(a) == IF a = <<>> THEN <<>> ELSE <<0>> \o a

\* Horner over the limbs of b, most significant first
RECURSIVE MulHorner(_, _, _)
MulHorner(a, b, i) ==
    IF i > Len(b) THEN <<>>
    ELSE BAdd(ShiftLimb(MulHorner(a, b, i + 1)), BMulSmall(a, b[i]))

BMul(a, b) == IF a = <<>> \/ b = <<>> THEN <<>> ELSE MulHorner(a, b, 1)

\* the largest d in 0 .. Limb-1 with d * b <= r, for r < Limb * b
RECURSIVE QuotLimb(_, _, _, _)
QuotLimb(r, b, d, bit) ==
    IF bit = 0 THEN d
    ELSE IF d + bit < Limb /\ BLeq(BMulSmall(b, d + bit), r)
         THEN QuotLimb(r, b, d + bit, bit \div 2)
         ELSE QuotLimb(r, b, d, bit \div 2)

\* long division of a by b # 0, from the most significant limb of a down; q and
\* r are the quotient and remainder of the limbs above i (their lengths are read
\* so that each step is evaluated before the next one starts)
RECURSIVE DivFrom(_, _, _, _, _)
DivFrom(a, b, i, q, r) ==
    IF i = 0 \/ Len(q) < 0 \/ Len(r) < 0 THEN [quot |-> Norm(q), rem |-> r]
    ELSE LET r1 == Norm(<<a[i]>> \o r)
             d  == QuotLimb(r1, b, 0, 512)
         IN  DivFrom(a, b, i - 1, <<d>> \o q, BSub(r1, BMulSmall(b, d)))

BDivMod(a, b) == DivFrom(a, b, Len(a), <<>>, <<>>)
BDiv(a, b) == BDivMod(a, b).quot
BMod(a, b) == BDivMod(a, b).rem

\* a \div m and a % m for a machine-small m (0 < m <= Limb), from the most
\* significant limb down
RECURSIVE DivSmallFrom(_, _, _, _, _)
DivSmallFrom(a, m, i, q, r) ==
    IF i = 0 \/ Len(q) < 0 \/ r < 0 THEN [quot |-> Norm(q), rem |-> r]
    ELSE DivSmallFrom(a, m, i - 1, <<(r * Limb + a[i]) \div m>> \o q, (r * Limb + a[i]) % m)

BDivSmall(a, m) == DivSmallFrom(a, m, Len(a), <<>>, 0)

\* ------------------------------------------------------------------------
\* u64

TwoPow16 == Big(65536)
TwoPow32 == BMul(TwoPow16, TwoPow16)
TwoPow64 == BMul(TwoPow32, TwoPow32)
U64_MAX == BSub(TwoPow64, Big(1))

IsU64(n) == BLeq(n, U64_MAX)

\* the value a u64 register keeps of the exact result n
Wrap64(n) == IF IsU64(n) THEN n ELSE BMod(n, TwoPow64)

\* u64::checked_sub, u64::checked_mul: None on a result outside u64
None == [some |-> FALSE]
Some(v) == [some |-> TRUE, val |-> v]

checked_sub(a, b) == IF BLess(a, b) THEN None ELSE Some(BSub(a, b))
checked_mul(a, b) == LET p == BMul(a, b) IN IF IsU64(p) THEN Some(p) ELSE None
checked_add(a, b) == LET t == BAdd(a, b) IN IF IsU64(t) THEN Some(t) ELSE None

\* the operators + and * on u64: with overflow checks (a debug build) a result
\* outside u64 panics, without them (a release build) it wraps
u64_add(a, b, checks) ==
    LET t == BAdd(a, b)
    IN  IF IsU64(t) THEN Some(t) ELSE IF checks THEN None ELSE Some(Wrap64(t))

u64_mul(a, b, checks) ==
    LET p == BMul(a, b)
    IN  IF IsU64(p) THEN Some(p) ELSE IF checks THEN None ELSE Some(Wrap64(p))

\* ------------------------------------------------------------------------
\* Results

Ok(v) == [val |-> v, outcome |-> "ok"]
Err(e) == [outcome |-> "err", err |-> e]
Panic(m) == [outcome |-> "panic", msg |-> m]

IsOk(r) == r.outcome = "ok"
IsErr(r) == r.outcome = "err"
IsPanic(r) == r.outcome = "panic"

\* F of the value of v, v being computed once (a let binding of Rust)
Once(v, F(_)) == CHOOSE out \in { F(x) : x \in {v} } : TRUE


\* &s[start..end] with 0-based byte offsets; Rust panics on a bad range
Slice(s, start, end) == SubSeq(s, start + 1, end)
SliceOk(s, start, end) == 0 <= start /\ start <= end /\ end <= Len(s)

\* ------------------------------------------------------------------------
\* amount.rs: constants, constructors and conversions

SATS_IN_BTC == Big(100000000)
MAX_MONEY_SAT == BMul(Big(21000000), SATS_IN_BTC)
MAX_MONEY_MSAT == BMul(MAX_MONEY_SAT, Big(1000))

\* pub struct Amount(u64): a one-field tuple
Amount(msat) == <<msat>>

ZERO == Amount(Big(0))
ONE_MSAT == Amount(Big(1))
MAX == Amount(MAX_MONEY_MSAT)
ONE_SAT == Amount(Big(1000))
ONE_BTC == Amount(BMul(Big(1000), SATS_IN_BTC))

OverflowError(amount, denomination) ==
    [amount |-> amount, denomination |-> denomination, kind |-> "OverflowError"]

FractionError(amount) == [amount |-> amount, kind |-> "FractionError"]

\* from_msat with the comparison off by one
from_msat_strict(msat) ==
    IF BLeq(MAX_MONEY_MSAT, msat)
    THEN Err(OverflowError(msat, "millisatoshis"))
    ELSE Ok(Amount(msat))

from_msat(msat) ==
    IF BLess(MAX_MONEY_MSAT, msat)
    THEN Err(OverflowError(msat, "millisatoshis"))
    ELSE Ok(Amount(msat))

\* from_sat that multiplies first and checks the product against the msat cap
from_sat_product(sat, checks) ==
    LET p == u64_mul(sat, Big(1000), checks)
    IN  IF ~p.some THEN Panic("attempt to multiply with overflow")
        ELSE IF BLess(MAX_MONEY_MSAT, p.val) THEN Err(OverflowError(sat, "satoshis"))
        ELSE Ok(Amount(p.val))

from_sat(sat, checks) ==
    IF BLess(MAX_MONEY_SAT, sat)
    THEN Err(OverflowError(sat, "satoshis"))
    ELSE LET p == u64_mul(sat, Big(1000), checks)
         IN  IF p.some THEN Ok(Amount(p.val)) ELSE Panic("attempt to multiply with overflow")

to_msat(self) == self[1]

to_sat(self) ==
    IF BDivSmall(self[1], 1000).rem = 0
    THEN Ok(BDivSmall(self[1], 1000).quot)
    ELSE Err(FractionError(self[1]))

to_sat_floor(self) == Ok(BDivSmall(self[1], 1000).quot)

\* to_sat_ceiling that adds 1000 instead of 999
to_sat_ceiling_1000(self, checks) ==
    LET t == u64_add(self[1], Big(1000), checks)
    IN  IF t.some THEN Ok(BDivSmall(t.val, 1000).quot)
        ELSE Panic("attempt to add with overflow")

to_sat_ceiling(self, checks) ==
    LET t == u64_add(self[1], Big(999), checks)
    IN  IF t.some THEN Ok(BDivSmall(t.val, 1000).quot)
        ELSE Panic("attempt to add with overflow")

to_sat_round(self, checks) ==
    LET t == u64_add(self[1], Big(500), checks)
    IN  IF t.some THEN Ok(BDivSmall(t.val, 1000).quot)
        ELSE Panic("attempt to add with overflow")

\* ------------------------------------------------------------------------
\* amount.rs: the operators

\* add without the assertion on the sum
add_unchecked(self, rhs, checks) ==
    LET sum == u64_add(self[1], rhs[1], checks)
    IN  IF ~sum.some THEN Panic("attempt to add with overflow")
        ELSE Ok(Amount(sum.val))

\* add whose assertion is sum < MAX_MONEY_MSAT
add_strict(self, rhs, checks) ==
    LET sum == u64_add(self[1], rhs[1], checks)
    IN  IF ~sum.some THEN Panic("attempt to add with overflow")
        ELSE IF BLess(sum.val, MAX_MONEY_MSAT) THEN Ok(Amount(sum.val))
        ELSE Panic("adding amounts overflowed the maximum number of 21 million bitcoins")

add(self, rhs, checks) ==
    LET sum == u64_add(self[1], rhs[1], checks)
    IN  IF ~sum.some THEN Panic("attempt to add with overflow")
        ELSE IF BLeq(sum.val, MAX_MONEY_MSAT) THEN Ok(Amount(sum.val))
        ELSE Panic("adding amounts overflowed the maximum number of 21 million bitcoins")

\* sub with a wrapping subtraction
sub_wrapping(self, rhs) ==
    IF BLess(self[1], rhs[1])
    THEN Ok(Amount(BSub(BAdd(self[1], TwoPow64), rhs[1])))
    ELSE Ok(Amount(BSub(self[1], rhs[1])))

sub(self, rhs) ==
    LET d == checked_sub(self[1], rhs[1])
    IN  IF d.some THEN Ok(Amount(d.val))
        ELSE Panic("underflow when subtracting amounts")

\* mul with a wrapping multiplication
mul_wrapping(self, rhs) ==
    LET p == Wrap64(BMul(self[1], rhs))
    IN  IF BLeq(p, MAX_MONEY_MSAT) THEN Ok(Amount(p))
        ELSE Panic("multiplying overflowed the maximum number of 21 million bitcoins")

mul(self, rhs) ==
    LET p == checked_mul(self[1], rhs)
    IN  IF p.some /\ BLeq(p.val, MAX_MONEY_MSAT) THEN Ok(Amount(p.val))
        ELSE Panic("multiplying overflowed the maximum number of 21 million bitcoins")

\* impl Mul<Amount> for u64
u64_mul_amount(self, rhs) == mul(rhs, self)

div(self, rhs) ==
    IF rhs = Big(0) THEN Panic("attempt to divide by zero")
    ELSE Ok(Amount(BDiv(self[1], rhs)))

rem(self, rhs) ==
    IF rhs = Big(0)
    THEN Panic("attempt to calculate the remainder with a divisor of zero")
    ELSE Ok(Amount(BMod(self[1], rhs)))

\* ------------------------------------------------------------------------
\* Text: a string is the sequence of its characters (ASCII, one byte each)

Digits == <<"0", "1", "2", "3", "4", "5", "6", "7", "8", "9">>

IsDigit(c) == \E d \in 1..10 : Digits[d] = c
to_digit(c) == (CHOOSE d \in 1..10 : Digits[d] = c) - 1

ends_with(s, suffix) ==
    /\ Len(suffix) <= Len(s)
    /\ SubSeq(s, Len(s) - Len(suffix) + 1, Len(s)) = suffix

\* Display for u64: the decimal digits, found by dividing by ten
RECURSIVE FmtDigits(_)
FmtDigits(n) ==
    IF n = <<>> THEN <<>>
    ELSE LET qr == BDivSmall(n, 10) IN FmtDigits(qr.quot) \o <<Digits[qr.rem + 1]>>

fmt_u64(n) == IF n = <<>> THEN <<"0">> ELSE FmtDigits(n)

\* Display without the space before the unit
fmt_no_space(self) == fmt_u64(self[1]) \o <<"m", "s", "a", "t">>

\* impl Display for Amount: write!(f, "{} msat", self.0)
fmt(self) == fmt_u64(self[1]) \o <<" ", "m", "s", "a", "t">>

ParseIntError(kind) == [kind |-> "ParseIntError", why |-> kind]

\* the digit loop of u64::from_str: result = result * 10 + digit, both checked
RECURSIVE Accumulate(_, _, _)
Accumulate(digits, i, result) ==
    IF i > Len(digits) THEN Ok(result)
    ELSE IF ~IsDigit(digits[i]) THEN Err(ParseIntError("InvalidDigit"))
    ELSE LET m == checked_mul(result, Big(10))
         IN  IF ~m.some THEN Err(ParseIntError("PosOverflow"))
             ELSE LET t == checked_add(m.val, Big(to_digit(digits[i])))
                  IN  IF ~t.some THEN Err(ParseIntError("PosOverflow"))
                      ELSE Accumulate(digits, i + 1, t.val)

\* str::parse::<u64>: an optional '+', then decimal digits
parse_u64(src) ==
    IF src = <<>> THEN Err(ParseIntError("Empty"))
    ELSE IF Len(src) = 1 /\ src[1] \in {"+", "-"} THEN Err(ParseIntError("InvalidDigit"))
    ELSE IF src[1] = "+" THEN Accumulate(Tail(src), 1, Big(0))
    ELSE Accumulate(src, 1, Big(0))

\* enum ParseErrorInner
ParseInt(error) == [error |-> error, variant |-> "ParseInt"]
Overflow(error) == [error |-> error, variant |-> "Overflow"]

ParseError(input, reason) == [kind |-> "ParseError", input |-> input, reason |-> reason]

\* parse_raw that takes off "msat" without asking for the space
parse_raw_loose(s) ==
    LET body == IF ends_with(s, <<"m", "s", "a", "t">>)
                THEN SubSeq(s, 1, Len(s) - 4)
                ELSE s
        parsed == parse_u64(body)
    IN  IF IsErr(parsed) THEN Err(ParseInt(parsed.err))
        ELSE LET made == from_msat(parsed.val)
             IN  IF IsErr(made) THEN Err(Overflow(made.err)) ELSE made

parse_raw(s) ==
    IF ends_with(s, <<" ", "m", "s", "a", "t">>) /\ ~SliceOk(s, 0, Len(s) - 5)
    THEN Panic("slice index")
    ELSE LET body == IF ends_with(s, <<" ", "m", "s", "a", "t">>)
                     THEN Slice(s, 0, Len(s) - 5)
                     ELSE s
             parsed == parse_u64(body)
         IN  IF IsErr(parsed) THEN Err(ParseInt(parsed.err))
             ELSE LET made == from_msat(parsed.val)
                  IN  IF IsErr(made) THEN Err(Overflow(made.err)) ELSE made

\* with the alloc feature: the error keeps the input
\* internal_parse that keeps the text handed to the integer parser
internal_parse_stripped(s) ==
    LET r == parse_raw(s)
    IN  IF IsErr(r)
        THEN Err(ParseError(IF ends_with(s, <<" ", "m", "s", "a", "t">>)
                            THEN SubSeq(s, 1, Len(s) - 5) ELSE s, r.err))
        ELSE r

internal_parse(s) ==
    LET r == parse_raw(s)
    IN  IF IsErr(r) THEN Err(ParseError(s, r.err)) ELSE r

\* ------------------------------------------------------------------------
\* src/src/amount.rs: the serde and postgres adapters.  An i64 is its sign and
\* its magnitude.

TwoPow63 == BDivSmall(TwoPow64, 2).quot

I64(neg, mag) == [neg |-> neg, mag |-> mag]

\* u64 as i64: the same 64 bits read as two's complement
as_i64(v) == IF BLess(v, TwoPow63) THEN I64(FALSE, v) ELSE I64(TRUE, BSub(TwoPow64, v))

TryFromIntError == [kind |-> "TryFromIntError"]

\* u64::try_from(i64)
u64_try_from_i64(x) == IF x.neg THEN Err(TryFromIntError) ELSE Ok(x.mag)

InvalidValue(v) == [kind |-> "serde::de::Error::invalid_value", unexpected |-> v]

\* HRVisitor::visit_u64
visit_u64(v) ==
    LET made == from_msat(v)
    IN  IF IsErr(made) THEN Err(InvalidValue(v)) ELSE made

\* impl ToSql for Amount
to_sql(self) == as_i64(to_msat(self))

\* from_sql that drops the sign of the column value
from_sql_abs(x) == from_msat(x.mag)

\* impl FromSql for Amount
from_sql(x) ==
    LET msats == u64_try_from_i64(x)
    IN  IF IsErr(msats) THEN msats ELSE from_msat(msats.val)

\* ------------------------------------------------------------------------
\* src/src/p2p_address.rs: the str operations and the std parsers it calls.
\* A str is its sequence of one-character strings (ASCII: one byte each).

LN_DEFAULT_PORT == 9735

starts_with(s, c) == s # <<>> /\ s[1] = c
ends_with_char(s, c) == s # <<>> /\ s[Len(s)] = c

\* str::find / str::rfind of a character: the 0-based byte offset
\* find that answers with the last occurrence
find_last(s, c) ==
    IF \E i \in 1..Len(s) : s[i] = c
    THEN Some((CHOOSE i \in 1..Len(s) : s[i] = c /\ \A j \in (i + 1)..Len(s) : s[j] # c) - 1)
    ELSE None

find(s, c) ==
    IF \E i \in 1..Len(s) : s[i] = c
    THEN Some((CHOOSE i \in 1..Len(s) : s[i] = c /\ \A j \in 1..(i - 1) : s[j] # c) - 1)
    ELSE None

rfind(s, c) ==
    IF \E i \in 1..Len(s) : s[i] = c
    THEN Some((CHOOSE i \in 1..Len(s) : s[i] = c /\ \A j \in (i + 1)..Len(s) : s[j] # c) - 1)
    ELSE None

HexLower == <<"0", "1", "2", "3", "4", "5", "6", "7", "8", "9", "a", "b", "c", "d", "e", "f">>
HexUpper == <<"0", "1", "2", "3", "4", "5", "6", "7", "8", "9", "A", "B", "C", "D", "E", "F">>

IsHexDigit(c) == \E d \in 1..16 : HexLower[d] = c \/ HexUpper[d] = c
hex_digit(c) == (CHOOSE d \in 1..16 : HexLower[d] = c \/ HexUpper[d] = c) - 1

\* char::to_digit(radix) for radix 10 and 16
IsDigitIn(c, radix) == IF radix = 10 THEN IsDigit(c) ELSE IsHexDigit(c)
DigitIn(c, radix) == IF radix = 10 THEN to_digit(c) ELSE hex_digit(c)

\* the digit loop of u16::from_str: result = result * 10 + digit, both checked
RECURSIVE AccumulateU16(_, _, _)
AccumulateU16(digits, i, result) ==
    IF i > Len(digits) THEN Ok(result)
    ELSE IF ~IsDigit(digits[i]) THEN Err(ParseIntError("InvalidDigit"))
    ELSE IF result * 10 + to_digit(digits[i]) > 65535 THEN Err(ParseIntError("PosOverflow"))
    ELSE AccumulateU16(digits, i + 1, result * 10 + to_digit(digits[i]))

\* str::parse::<u16>: an optional '+', then decimal digits
parse_u16(src) ==
    IF src = <<>> THEN Err(ParseIntError("Empty"))
    ELSE IF Len(src) = 1 /\ src[1] \in {"+", "-"} THEN Err(ParseIntError("InvalidDigit"))
    ELSE IF src[1] = "+" THEN AccumulateU16(Tail(src), 1, 0)
    ELSE AccumulateU16(src, 1, 0)

\* Display for a small unsigned integer (u8, u16)
RECURSIVE fmt_dec(_)
fmt_dec(n) == IF n < 10 THEN <<Digits[n + 1]>> ELSE fmt_dec(n \div 10) \o <<Digits[(n % 10) + 1]>>

\* {:x} of a u16: lower-case hex without leading zeros
RECURSIVE fmt_hex(_)
fmt_hex(n) == IF n < 16 THEN <<HexLower[n + 1]>> ELSE fmt_hex(n \div 16) \o <<HexLower[(n % 16) + 1]>>

\* core::net::parser: a reader returns [some, val, pos], pos the 0-based
\* offset of the next character; None leaves the position where it was
Read(v, pos) == [some |-> TRUE, val |-> v, pos |-> pos]

\* Parser::read_number(radix, Some(max_digits), allow_zero_prefix) into a
\* type holding 0..max
RECURSIVE ReadDigits(_, _, _, _, _, _, _)
ReadDigits(s, pos, radix, max_digits, max, result, count) ==
    IF pos < Len(s) /\ IsDigitIn(s[pos + 1], radix)
    THEN LET next == result * radix + DigitIn(s[pos + 1], radix)
         IN  IF next > max \/ count + 1 > max_digits THEN None
             ELSE ReadDigits(s, pos + 1, radix, max_digits, max, next, count + 1)
    ELSE IF count = 0 THEN None
    ELSE [some |-> TRUE, val |-> result, pos |-> pos, count |-> count]

read_number(s, pos, radix, max_digits, allow_zero_prefix, max) ==
    Once(ReadDigits(s, pos, radix, max_digits, max, 0, 0), LAMBDA r :
        IF ~r.some THEN None
        ELSE IF ~allow_zero_prefix /\ s[pos + 1] = "0" /\ r.count > 1 THEN None
        ELSE Read(r.val, r.pos))

\* Parser::read_separator(sep, index, inner) for a number
read_separated(s, pos, sep, index, radix, max_digits, allow_zero_prefix, max) ==
    IF index = 0 THEN read_number(s, pos, radix, max_digits, allow_zero_prefix, max)
    ELSE IF pos < Len(s) /\ s[pos + 1] = sep
         THEN read_number(s, pos + 1, radix, max_digits, allow_zero_prefix, max)
         ELSE None

\* Parser::read_ipv4_addr: four numbers 0..255 of at most three digits,
\* without a leading zero, separated by '.'
RECURSIVE ReadOctets(_, _, _, _)
ReadOctets(s, pos, i, groups) ==
    IF i = 4 THEN Read(groups, pos)
    ELSE Once(read_separated(s, pos, ".", i, 10, 3, FALSE, 255), LAMBDA r :
             IF ~r.some THEN None ELSE ReadOctets(s, r.pos, i + 1, Append(groups, r.val)))

read_ipv4_addr(s, pos) == ReadOctets(s, pos, 0, <<>>)

AddrParseError(kind) == [kind |-> "AddrParseError", why |-> kind]

\* <Ipv4Addr as FromStr>::from_str
parse_ipv4(s) ==
    IF Len(s) > 15 THEN Err(AddrParseError("Ipv4"))
    ELSE Once(read_ipv4_addr(s, 0), LAMBDA r :
             IF r.some /\ r.pos = Len(s) THEN Ok(r.val) ELSE Err(AddrParseError("Ipv4")))

\* read_groups of Parser::read_ipv6_addr: up to limit groups of at most four
\* hex digits separated by ':', the last two of them possibly written as an
\* IPv4 address; stops without failing at the first group that does not read
RECURSIVE read_groups(_, _, _, _, _)
read_groups(s, pos, limit, i, groups) ==
    IF i >= limit THEN [n |-> i, pos |-> pos, groups |-> groups, ipv4 |-> FALSE]
    ELSE LET sep  == i = 0 \/ (pos < Len(s) /\ s[pos + 1] = ":")
             from == IF i = 0 THEN pos ELSE pos + 1
         IN  Once(IF i < limit - 1 /\ sep THEN read_ipv4_addr(s, from) ELSE None, LAMBDA v4 :
             IF v4.some
             THEN [n |-> i + 2, pos |-> v4.pos,
                   groups |-> groups \o <<v4.val[1] * 256 + v4.val[2], v4.val[3] * 256 + v4.val[4]>>,
                   ipv4 |-> TRUE]
             ELSE Once(IF sep THEN read_number(s, from, 16, 4, TRUE, 65535) ELSE None, LAMBDA g :
                  IF g.some THEN read_groups(s, g.pos, limit, i + 1, Append(groups, g.val))
                  ELSE [n |-> i, pos |-> pos, groups |-> groups, ipv4 |-> FALSE]))

\* Parser::read_ipv6_addr
read_ipv6_addr(s, pos) ==
    Once(read_groups(s, pos, 8, 0, <<>>), LAMBDA head :
        IF head.n = 8 THEN Read(head.groups, head.pos)
        ELSE IF head.ipv4 THEN None
        ELSE IF ~(head.pos + 1 < Len(s) /\ s[head.pos + 1] = ":" /\ s[head.pos + 2] = ":") THEN None
        ELSE Once(read_groups(s, head.pos + 2, 8 - (head.n + 1), 0, <<>>), LAMBDA tail :
             Read(head.groups \o [k \in 1..(8 - head.n - tail.n) |-> 0] \o tail.groups, tail.pos)))

\* <Ipv6Addr as FromStr>::from_str
parse_ipv6(s) ==
    Once(read_ipv6_addr(s, 0), LAMBDA r :
        IF r.some /\ r.pos = Len(s) THEN Ok(r.val) ELSE Err(AddrParseError("Ipv6")))

\* enum IpAddr
V4(octets) == [family |-> "V4", addr |-> octets]
V6(segments) == [family |-> "V6", addr |-> segments]

\* Display for Ipv4Addr
fmt_ipv4(o) == fmt_dec(o[1]) \o <<".">> \o fmt_dec(o[2]) \o <<".">> \o fmt_dec(o[3]) \o <<".">> \o fmt_dec(o[4])

\* the groups i..j of an Ipv6Addr joined by ':'
RECURSIVE fmt_subslice(_, _, _)
fmt_subslice(g, i, j) ==
    IF i > j THEN <<>>
    ELSE IF i = j THEN fmt_hex(g[i])
    ELSE fmt_hex(g[i]) \o <<":">> \o fmt_subslice(g, i + 1, j)

\* the length of the run of zero groups that starts at group i
RECURSIVE ZeroRun(_, _)
ZeroRun(g, i) == IF i > Len(g) \/ g[i] # 0 THEN 0 ELSE 1 + ZeroRun(g, i + 1)

\* Display for Ipv6Addr: ::ffff:a.b.c.d for a mapped address, else the first
\* longest run of more than one zero group is written as "::"
fmt_ipv6(g) ==
    IF (\A i \in 1..5 : g[i] = 0) /\ g[6] = 65535
    THEN <<":", ":", "f", "f", "f", "f", ":">> \o
         fmt_ipv4(<<g[7] \div 256, g[7] % 256, g[8] \div 256, g[8] % 256>>)
    ELSE LET longest == CHOOSE i \in 1..8 :
                            /\ \A j \in 1..8 : ZeroRun(g, j) <= ZeroRun(g, i)
                            /\ \A j \in 1..(i - 1) : ZeroRun(g, j) < ZeroRun(g, i)
             len == ZeroRun(g, longest)
         IN  IF len > 1
             THEN fmt_subslice(g, 1, longest - 1) \o <<":", ":">> \o fmt_subslice(g, longest + len, 8)
             ELSE fmt_subslice(g, 1, 8)

\* Display for IpAddr
fmt_ip(ip) == IF ip.family = "V4" THEN fmt_ipv4(ip.addr) ELSE fmt_ipv6(ip.addr)

\* <IpAddr as FromStr>::from_str: an IPv4 address, else an IPv6 address
parse_ip(s) ==
    LET v4 == parse_ipv4(s)
        v6 == parse_ipv6(s)
    IN  IF IsOk(v4) THEN Ok(V4(v4.val))
        ELSE IF IsOk(v6) THEN Ok(V6(v6.val))
        ELSE Err(AddrParseError("Ip"))

\* ------------------------------------------------------------------------
\* crate::NodeId: 66 hex characters holding the 33 bytes of a public key

NodeIdError(input, why) == [kind |-> "node_id::ParseError", why |-> why, input |-> input]

node_id_parse(s) ==
    IF Len(s) # 66 THEN Err(NodeIdError(s, "InvalidLength"))
    ELSE IF \E i \in 1..66 : ~IsHexDigit(s[i]) THEN Err(NodeIdError(s, "InvalidChar"))
    ELSE Ok([i \in 1..33 |-> hex_digit(s[2 * i - 1]) * 16 + hex_digit(s[2 * i])])

RECURSIVE node_id_fmt(_, _)
node_id_fmt(id, alternate) ==
    IF id = <<>> THEN <<>>
    ELSE LET hex == IF alternate THEN HexUpper ELSE HexLower
         IN  <<hex[(id[1] \div 16) + 1], hex[(id[1] % 16) + 1]>> \o node_id_fmt(Tail(id), alternate)

\* ------------------------------------------------------------------------
\* src/src/p2p_address.rs: Host, HostPort, P2PAddress

\* enum HostInner
HostInner_Ip(ip) == [variant |-> "Ip", ip |-> ip]
HostInner_Hostname(hostname) == [variant |-> "Hostname", hostname |-> hostname]

\* struct Host(HostInner)
Host(inner) == <<inner>>

OnionSuffix == <<".", "o", "n", "i", "o", "n">>

is_onion(self) ==
    IF self[1].variant = "Hostname" THEN ends_with(self[1].hostname, OnionSuffix) ELSE FALSE

is_ip_addr(self) ==
    IF self[1].variant = "Hostname" THEN FALSE ELSE TRUE

\* impl Display for Host
host_fmt(self) ==
    IF self[1].variant = "Ip" THEN fmt_ip(self[1].ip) ELSE self[1].hostname

\* HostPort that prints every host without brackets
host_port_fmt_plain(host, port) == host_fmt(host) \o <<":">> \o fmt_dec(port)

\* HostPort that brackets every IP address
host_port_fmt_any_ip(host, port) ==
    IF host[1].variant = "Ip"
    THEN <<"[">> \o fmt_ip(host[1].ip) \o <<"]", ":">> \o fmt_dec(port)
    ELSE host_fmt(host) \o <<":">> \o fmt_dec(port)

\* impl Display for HostPort
host_port_fmt(host, port) ==
    IF host[1].variant = "Ip" /\ host[1].ip.family = "V6"
    THEN <<"[">> \o fmt_ipv6(host[1].ip.addr) \o <<"]", ":">> \o fmt_dec(port)
    ELSE host_fmt(host) \o <<":">> \o fmt_dec(port)

\* impl From<Host> for String
string_from_host(value) ==
    IF value[1].variant = "Ip" THEN fmt_ip(value[1].ip) ELSE value[1].hostname

NotIpAddr(hostname) == [kind |-> "NotIpAddr", hostname |-> hostname]

\* the conversion that answers by looking at the text instead of the variant
ip_addr_try_from_text(value) ==
    IF IsOk(parse_ip(host_fmt(value))) THEN Ok(parse_ip(host_fmt(value)).val)
    ELSE Err(NotIpAddr(host_fmt(value)))

\* impl TryFrom<Host> for IpAddr
ip_addr_try_from(value) ==
    IF value[1].variant = "Ip" THEN Ok(value[1].ip) ELSE Err(NotIpAddr(value[1].hostname))

\* struct P2PAddress
P2PAddress(node_id, host, port) == [host |-> host, port |-> port, node_id |-> node_id]

\* enum IpOrHostnamePos
Pos_Ip(ip) == [variant |-> "Ip", ip |-> ip]
Pos_Hostname(begin, end) == [end |-> end, variant |-> "Hostname", begin |-> begin]

\* enum ParseErrorInner of p2p_address.rs
MissingAtSymbol == [variant |-> "MissingAtSymbol"]
InvalidNodeId(error) == [error |-> error, variant |-> "InvalidNodeId"]
InvalidPortNumber(error) == [error |-> error, variant |-> "InvalidPortNumber"]
InvalidIpv6(error) == [error |-> error, variant |-> "InvalidIpv6"]

IsBracketed(s) == starts_with(s, "[") /\ ends_with_char(s, "]")

\* the split that takes the first ':' for the port separator
split_host_port_first(host_port) ==
    LET colon == find(host_port, ":")
    IN  IF IsBracketed(host_port) THEN Ok(<<Len(host_port), LN_DEFAULT_PORT>>)
        ELSE IF colon.some
        THEN LET port == parse_u16(Slice(host_port, colon.val + 1, Len(host_port)))
             IN  IF IsErr(port) THEN Err(InvalidPortNumber(port.err))
                 ELSE Ok(<<colon.val, port.val>>)
        ELSE Ok(<<Len(host_port), LN_DEFAULT_PORT>>)

\* the match of parse_raw: where the host ends, and the port
\* the split that takes a ':' for the port separator only after a host
split_host_port_after_host(host_port) ==
    Once(rfind(host_port, ":"), LAMBDA colon :
        IF IsBracketed(host_port) THEN Ok(<<Len(host_port), LN_DEFAULT_PORT>>)
        ELSE IF colon.some /\ colon.val > 0
        THEN IF ~SliceOk(host_port, colon.val + 1, Len(host_port)) THEN Panic("slice index")
             ELSE Once(parse_u16(Slice(host_port, colon.val + 1, Len(host_port))), LAMBDA port :
                      IF IsErr(port) THEN Err(InvalidPortNumber(port.err))
                      ELSE Ok(<<colon.val, port.val>>))
        ELSE Ok(<<Len(host_port), LN_DEFAULT_PORT>>))

split_host_port(host_port) ==
    Once(rfind(host_port, ":"), LAMBDA colon :
        IF IsBracketed(host_port) THEN Ok(<<Len(host_port), LN_DEFAULT_PORT>>)
        ELSE IF colon.some
        THEN IF ~SliceOk(host_port, colon.val + 1, Len(host_port)) THEN Panic("slice index")
             ELSE Once(parse_u16(Slice(host_port, colon.val + 1, Len(host_port))), LAMBDA port :
                      IF IsErr(port) THEN Err(InvalidPortNumber(port.err))
                      ELSE Ok(<<colon.val, port.val>>))
        ELSE Ok(<<Len(host_port), LN_DEFAULT_PORT>>))

\* the classification that lets a bracketed text fall back to a hostname
classify_host_lenient(host_port, host_end, at_pos) ==
    LET host == Slice(host_port, 0, host_end)
        v4   == parse_ipv4(host)
        v6   == parse_ipv6(Slice(host_port, 1, Len(host) - 1))
    IN  IF IsOk(v4) THEN Ok(Pos_Ip(V4(v4.val)))
        ELSE IF IsBracketed(host) /\ IsOk(v6) THEN Ok(Pos_Ip(V6(v6.val)))
        ELSE Ok(Pos_Hostname(at_pos + 1, at_pos + 1 + host_end))

\* the classification that takes every text after a '[' for a bracketed one
classify_host_open_bracket(host_port, host_end, at_pos) ==
    IF ~SliceOk(host_port, 0, host_end) THEN Panic("slice index") ELSE
    Once(Slice(host_port, 0, host_end), LAMBDA host :
    Once(parse_ipv4(host), LAMBDA v4 :
        IF IsOk(v4) THEN Ok(Pos_Ip(V4(v4.val)))
        ELSE IF starts_with(host, "[")
        THEN IF ~SliceOk(host_port, 1, Len(host) - 1) THEN Panic("slice index")
             ELSE Once(parse_ipv6(Slice(host_port, 1, Len(host) - 1)), LAMBDA v6 :
                      IF IsErr(v6) THEN Err(InvalidIpv6(v6.err)) ELSE Ok(Pos_Ip(V6(v6.val))))
        ELSE Ok(Pos_Hostname(at_pos + 1, at_pos + 1 + host_end))))

\* the second match of parse_raw: the host text as IPv4, bracketed IPv6 or
\* the range of a hostname
classify_host(host_port, host_end, at_pos) ==
    IF ~SliceOk(host_port, 0, host_end) THEN Panic("slice index") ELSE
    Once(Slice(host_port, 0, host_end), LAMBDA host :
    Once(parse_ipv4(host), LAMBDA v4 :
        IF IsOk(v4) THEN Ok(Pos_Ip(V4(v4.val)))
        ELSE IF IsBracketed(host)
        THEN IF ~SliceOk(host_port, 1, Len(host) - 1) THEN Panic("slice index")
             ELSE Once(parse_ipv6(Slice(host_port, 1, Len(host) - 1)), LAMBDA v6 :
                      IF IsErr(v6) THEN Err(InvalidIpv6(v6.err)) ELSE Ok(Pos_Ip(V6(v6.val))))
        ELSE Ok(Pos_Hostname(at_pos + 1, at_pos + 1 + host_end))))

\* parse_raw that splits the port off before it parses the node id
p2p_parse_raw_port_first(s) ==
    LET at == find(s, "@")
    IN  IF ~at.some THEN Err(MissingAtSymbol)
        ELSE LET host_port == Slice(s, at.val + 1, Len(s))
                 node_id   == node_id_parse(Slice(s, 0, at.val))
                 split     == split_host_port(host_port)
             IN  IF IsErr(split) THEN split
                 ELSE IF IsErr(node_id) THEN Err(InvalidNodeId(node_id.err))
                 ELSE LET host == classify_host(host_port, split.val[1], at.val)
                      IN  IF ~IsOk(host) THEN host
                          ELSE Ok(<<node_id.val, host.val, split.val[2]>>)

\* P2PAddress::parse_raw
p2p_parse_raw(s) ==
    Once(find(s, "@"), LAMBDA at :
        IF ~at.some THEN Err(MissingAtSymbol)
        ELSE IF ~SliceOk(s, at.val + 1, Len(s)) THEN Panic("slice index")
        ELSE Once(Slice(s, at.val + 1, Len(s)), LAMBDA host_port :
             Once(node_id_parse(Slice(s, 0, at.val)), LAMBDA node_id :
                 IF IsErr(node_id) THEN Err(InvalidNodeId(node_id.err))
                 ELSE Once(split_host_port(host_port), LAMBDA split :
                          IF ~IsOk(split) THEN split
                          ELSE Once(classify_host(host_port, split.val[1], at.val), LAMBDA host :
                                   IF ~IsOk(host) THEN host
                                   ELSE Ok(<<node_id.val, host.val, split.val[2]>>))))))

\* String::replace_range(start..end, with) and String::truncate(new_len)
replace_range(s, start, end, with) ==
    IF ~SliceOk(s, start, end) THEN Panic("replace_range")
    ELSE Ok(Slice(s, 0, start) \o with \o Slice(s, end, Len(s)))

truncate(s, new_len) == IF new_len <= Len(s) THEN Slice(s, 0, new_len) ELSE s

\* into_substring of String that truncates to end instead of end - start
into_substring_to_end(s, start, end, checks) ==
    LET shifted == replace_range(s, 0, start, <<>>)
    IN  IF IsPanic(shifted) THEN shifted ELSE Ok(truncate(shifted.val, end))

\* impl StringOps for String: shift the buffer, then cut it (end - start is a
\* usize subtraction: it panics with overflow checks and wraps without them)
into_substring_string(s, start, end, checks) ==
    LET shifted == replace_range(s, 0, start, <<>>)
    IN  IF IsPanic(shifted) THEN shifted
        ELSE IF end < start
        THEN IF checks THEN Panic("attempt to subtract with overflow") ELSE Ok(shifted.val)
        ELSE Ok(truncate(shifted.val, end - start))

\* impl StringOps for &str: copy the range
into_substring_str(s, start, end) ==
    IF ~SliceOk(s, start, end) THEN Panic("slice index") ELSE Ok(Slice(s, start, end))

\* impl StringOps for Box<str>
into_substring_box(s, start, end, checks) == into_substring_string(s, start, end, checks)

StringKinds == {"str", "String", "Box"}

into_substring(kind, s, start, end, checks) ==
    IF kind = "str" THEN into_substring_str(s, start, end)
    ELSE IF kind = "String" THEN into_substring_string(s, start, end, checks)
    ELSE into_substring_box(s, start, end, checks)

\* struct ParseError of p2p_address.rs (with the alloc feature)
P2PParseError(input, reason) == [kind |-> "p2p_address::ParseError", input |-> input, reason |-> reason]

\* P2PAddress::internal_parse::<S>
p2p_internal_parse(kind, s, checks) ==
    Once(p2p_parse_raw(s), LAMBDA raw :
        IF IsPanic(raw) THEN raw
        ELSE IF IsErr(raw) THEN Err(P2PParseError(s, raw.err))
        ELSE IF raw.val[2].variant = "Hostname"
        THEN Once(into_substring(kind, s, raw.val[2].begin, raw.val[2].end, checks), LAMBDA hostname :
                 IF IsPanic(hostname) THEN hostname
                 ELSE Ok(P2PAddress(raw.val[1], Host(HostInner_Hostname(hostname.val)), raw.val[3])))
        ELSE Ok(P2PAddress(raw.val[1], Host(HostInner_Ip(raw.val[2].ip)), raw.val[3])))

\* impl Display for P2PAddress
p2p_fmt(self, alternate) ==
    node_id_fmt(self.node_id, alternate) \o <<"@">> \o host_port_fmt(self.host, self.port)

\* P2PAddress::as_host_port
as_host_port(self) == <<self.host, self.port>>

SocketAddr(ip, port) == [ip |-> ip, port |-> port]

ResolveOnion == [kind |-> "io::Error", why |-> "ResolveOnion"]

\* <(&str, u16) as ToSocketAddrs>::to_socket_addrs: a text that is an IP
\* address is not looked up; otherwise the platform resolver is called once
\* and answers with addresses or an error
str_to_socket_addrs(hostname, port, answer) ==
    LET ip == parse_ip(hostname)
    IN  IF IsOk(ip) THEN [result |-> Ok(<<SocketAddr(ip.val, port)>>), calls |-> <<>>]
        ELSE [result |-> IF IsErr(answer) THEN answer
                         ELSE Ok([i \in 1..Len(answer.val) |-> SocketAddr(answer.val[i], port)]),
              calls |-> <<[host |-> hostname, port |-> port]>>]

\* to_socket_addrs that looks the hostname up before it asks is_onion
to_socket_addrs_eager(host, port, answer) ==
    IF host[1].variant = "Ip"
    THEN [result |-> Ok(<<SocketAddr(host[1].ip, port)>>), calls |-> <<>>]
    ELSE LET looked == str_to_socket_addrs(host[1].hostname, port, answer)
         IN  IF is_onion(host) THEN [result |-> Err(ResolveOnion), calls |-> looked.calls]
             ELSE looked

\* impl ToSocketAddrs for HostPort
to_socket_addrs(host, port, answer) ==
    IF is_onion(host) THEN [result |-> Err(ResolveOnion), calls |-> <<>>]
    ELSE IF host[1].variant = "Ip"
    THEN [result |-> Ok(<<SocketAddr(host[1].ip, port)>>), calls |-> <<>>]
    ELSE str_to_socket_addrs(host[1].hostname, port, answer)

\* impl ToSocketAddrs for P2PAddress
p2p_to_socket_addrs(self, answer) == to_socket_addrs(self.host, self.port, answer)

\* ------------------------------------------------------------------------
\* Inputs

MaxOps == 2

\* u64 scalars around the limits of the code: 0 (division by zero), 9 and 2^32
\* (products that leave u64 and wrap to a value under the cap), u64::MAX
Scalars == { Big(0), Big(1), Big(3), Big(9), Big(1000), TwoPow32, U64_MAX }

Half == BDivSmall(MAX_MONEY_MSAT, 2).quot

\* u64 values handed to the constructors
Values ==
    Scalars \cup
    { Big(2), Big(500), Big(999), Big(1001), Big(1499), Big(1500), ONE_BTC[1],
      MAX_MONEY_SAT, BAdd(MAX_MONEY_SAT, Big(1)),
      Half, BAdd(Half, Big(1)),
      BSub(MAX_MONEY_MSAT, Big(1)), MAX_MONEY_MSAT, BAdd(MAX_MONEY_MSAT, Big(1)),
      BAdd(BDivSmall(TwoPow64, 1000).quot, Big(1)),
      BDivSmall(TwoPow64, 2).quot }

Consts == { ZERO, ONE_MSAT, MAX, ONE_SAT, ONE_BTC }

\* the values the arithmetic starts from
StartValues == { Big(1), Big(1001), TwoPow32, Half, BAdd(MAX_MONEY_MSAT, Big(1)) }

\* Amounts to add and subtract
Operands == { ONE_MSAT, Amount(Half), Amount(BAdd(Half, Big(1))), MAX }

\* the decimal numeral of n, written limb by limb
Dec3(limb, lead) ==
    LET h == Digits[(limb \div 100) + 1]
        t == Digits[((limb \div 10) % 10) + 1]
        u == Digits[(limb % 10) + 1]
    IN  IF lead /\ limb < 10 THEN <<u>>
        ELSE IF lead /\ limb < 100 THEN <<t, u>>
        ELSE <<h, t, u>>

RECURSIVE NumeralFrom(_, _)
NumeralFrom(n, i) ==
    IF i = 0 THEN <<>>
    ELSE Dec3(n[i], i = Len(n)) \o NumeralFrom(n, i - 1)

Numeral(n) == IF n = <<>> THEN <<"0">> ELSE NumeralFrom(n, Len(n))

Unit == <<" ", "m", "s", "a", "t">>

\* the values whose numerals are parsed: around the cap and around u64::MAX
TextValues == { Big(5), MAX_MONEY_MSAT, BAdd(MAX_MONEY_MSAT, Big(1)), TwoPow64 }

Texts ==
    { pre \o num \o suf :
        pre \in { <<>>, <<"+">>, <<"-">>, <<"0">> },
        num \in { <<>> } \cup { Numeral(v) : v \in TextValues },
        suf \in { <<>>, Unit } }
    \cup
    { <<"5">> \o Unit \o Unit, <<"5", "m", "s", "a", "t">>, <<"5", " ", "s", "a", "t">>,
      <<" ", "5">>, <<"5", " ">>, <<"+", "+", "5">>, <<"5", "+">>,
      Numeral(U64_MAX), Numeral(BMul(TwoPow64, Big(1000))) \o Unit }

\* the texts that start an arithmetic run
StartTexts == { <<"9">>, <<"1", "0", "0", "1">> \o Unit, <<>> }

\* a formatted text with its unit taken off again
WithoutUnit(s) == IF ends_with(s, Unit) THEN SubSeq(s, 1, Len(s) - Len(Unit)) ELSE s

\* ------------------------------------------------------------------------
\* The program: one Amount, the operations applied to it, the last call

VARIABLES amount, text, pc, ops, last

\* ... and one P2PAddress: the address held, the number of calls made to the
\* platform resolver, the last call on an address, and what each kind of
\* string gave for the text last parsed
VARIABLES address, lookups, did, outcomes

addrVars == <<address, lookups, did, outcomes>>

NotParsed == [outcome |-> "none"]

vars == <<amount, text, pc, ops, last, address, lookups, did, outcomes>>

Init ==
    /\ amount = ZERO
    /\ text = <<>>
    /\ pc = "new"
    /\ ops = 0
    /\ last = [result |-> Ok(ZERO), op |-> "default"]
    /\ address = None
    /\ lookups = 0
    /\ did = [op |-> "none"]
    /\ outcomes = [input |-> <<>>, results |-> [k \in StringKinds |-> NotParsed]]

\* (each action evaluates its call once: r ranges over the one record)
\* a binary operator: the result is returned, the program's Amount is kept
Call(rec) ==
    /\ pc = "run"
    /\ ops < MaxOps
    /\ \E r \in {rec} :
        /\ ops' = ops + 1
        /\ last' = r
        /\ pc' = IF IsPanic(r.result) THEN "panicked" ELSE "run"
        /\ UNCHANGED <<amount, text, addrVars>>

\* a constructor: its successful result becomes the program's Amount
Take(rec) ==
    /\ pc = "new"
    /\ \E r \in {rec} :
        /\ last' = r
        /\ pc' = IF IsPanic(r.result) THEN "panicked" ELSE IF IsOk(r.result) THEN "run" ELSE "new"
        /\ amount' = IF IsOk(r.result) THEN r.result.val ELSE amount
        /\ UNCHANGED <<ops, text, addrVars>>

\* a compound assignment: *self = *self op rhs
Assign(rec) ==
    /\ pc = "run"
    /\ ops < MaxOps
    /\ \E r \in {rec} :
        /\ ops' = ops + 1
        /\ last' = r
        /\ pc' = IF IsPanic(r.result) THEN "panicked" ELSE "run"
        /\ amount' = IF IsOk(r.result) THEN r.result.val ELSE amount
        /\ UNCHANGED <<text, addrVars>>

Constant == \E c \in Consts : Take([result |-> Ok(c), op |-> "const"])

FromMsat == \E v \in StartValues : Take([result |-> from_msat(v), op |-> "from_msat", arg |-> v])

FromSat ==
    \E v \in StartValues, checks \in BOOLEAN :
        Take([result |-> from_sat(v, checks), op |-> "from_sat", arg |-> v])

Add ==
    \E b \in Operands, checks \in BOOLEAN :
        Call([rhs |-> b, result |-> add(amount, b, checks), op |-> "add", lhs |-> amount])

AddAssign ==
    \E b \in Operands, checks \in BOOLEAN :
        Assign([rhs |-> b, result |-> add(amount, b, checks), op |-> "add_assign", lhs |-> amount])

Sub == \E b \in Operands :
    Call([rhs |-> b, result |-> sub(amount, b), op |-> "sub", lhs |-> amount])

SubAssign == \E b \in Operands :
    Assign([rhs |-> b, result |-> sub(amount, b), op |-> "sub_assign", lhs |-> amount])

Mul == \E k \in Scalars :
    Call([rhs |-> k, result |-> mul(amount, k), op |-> "mul", lhs |-> amount])

MulU64 == \E k \in Scalars :
    Call([rhs |-> k, result |-> u64_mul_amount(k, amount), op |-> "u64_mul", lhs |-> amount])

MulAssign == \E k \in Scalars :
    Assign([rhs |-> k, result |-> mul(amount, k), op |-> "mul_assign", lhs |-> amount])

Div == \E k \in Scalars :
    Call([rhs |-> k, result |-> div(amount, k), op |-> "div", lhs |-> amount])

DivAssign == \E k \in Scalars :
    Assign([rhs |-> k, result |-> div(amount, k), op |-> "div_assign", lhs |-> amount])

Rem == \E k \in Scalars :
    Call([rhs |-> k, result |-> rem(amount, k), op |-> "rem", lhs |-> amount])

RemAssign == \E k \in Scalars :
    Assign([rhs |-> k, result |-> rem(amount, k), op |-> "rem_assign", lhs |-> amount])

FromStr == \E t \in StartTexts :
    Take([result |-> internal_parse(t), input |-> t, op |-> "from_str"])

Next ==
    \/ Constant
    \/ FromMsat
    \/ FromSat
    \/ FromStr
    \/ Add
    \/ AddAssign
    \/ Sub
    \/ SubAssign
    \/ Mul
    \/ MulU64
    \/ MulAssign
    \/ Div
    \/ DivAssign
    \/ Rem
    \/ RemAssign

Spec == Init /\ [][Next]_vars

\* ------------------------------------------------------------------------
\* The constructors and conversions on every value of Values

NewFromMsat == \E v \in Values : Take([result |-> from_msat(v), op |-> "from_msat", arg |-> v])

NewFromSat ==
    \E v \in Values, checks \in BOOLEAN :
        Take([result |-> from_sat(v, checks), op |-> "from_sat", arg |-> v])

\* a conversion of the program's Amount
Convert(rec) ==
    /\ pc = "run"
    /\ \E r \in {rec} :
        /\ last' = r
        /\ pc' = IF IsPanic(r.result) THEN "panicked" ELSE "run"
        /\ UNCHANGED <<amount, text, ops, addrVars>>

ToMsat == Convert([self |-> amount, result |-> Ok(to_msat(amount)), op |-> "to_msat"])

ToSat == Convert([self |-> amount, result |-> to_sat(amount), op |-> "to_sat"])

ToSatFloor == Convert([self |-> amount, result |-> to_sat_floor(amount), op |-> "to_sat_floor"])

ToSatCeiling ==
    \E checks \in BOOLEAN :
        Convert([self |-> amount, result |-> to_sat_ceiling(amount, checks), op |-> "to_sat_ceiling"])

ToSatRound ==
    \E checks \in BOOLEAN :
        Convert([self |-> amount, result |-> to_sat_round(amount, checks), op |-> "to_sat_round"])

NextConv ==
    \/ Constant
    \/ NewFromMsat
    \/ NewFromSat
    \/ ToMsat
    \/ ToSat
    \/ ToSatFloor
    \/ ToSatCeiling
    \/ ToSatRound

SpecConv == Init /\ [][NextConv]_vars

\* ------------------------------------------------------------------------
\* Formatting and parsing

\* amount.to_string()
Display ==
    /\ pc = "run"
    /\ text' = fmt(amount)
    /\ last' = [self |-> amount, result |-> Ok(fmt(amount)), op |-> "to_string"]
    /\ UNCHANGED <<amount, pc, ops, addrVars>>

\* what parsing answers on each text of Texts (a table, so each is parsed once)
ParsedTexts == [t \in Texts |-> internal_parse(t)]

\* Amount::try_from(s) for a given text
TryFromStr ==
    \E t \in Texts :
        Call([result |-> ParsedTexts[t], input |-> t, op |-> "try_from"])

\* s.parse::<Amount>() for the formatted text, or for that without its unit
Reparse ==
    \E t \in { text, WithoutUnit(text) } :
        Call([result |-> internal_parse(t), input |-> t, op |-> "parse"])

NextText ==
    \/ Constant
    \/ NewFromMsat
    \/ Display
    \/ TryFromStr
    \/ Reparse

SpecText == Init /\ [][NextText]_vars

\* ------------------------------------------------------------------------
\* The adapters: an Amount is read from a u64 (serde) and from a signed
\* 64-bit column (postgres), and written to such a column

\* the column values read: around zero, the cap and the ends of i64
SqlValues ==
    { I64(neg, mag) : neg \in BOOLEAN,
                      mag \in { Big(1), Big(5), Big(1000), Half, BSub(MAX_MONEY_MSAT, Big(1)),
                                MAX_MONEY_MSAT, BAdd(MAX_MONEY_MSAT, Big(1)), BSub(TwoPow63, Big(1)) } }
    \cup { I64(FALSE, Big(0)), I64(TRUE, TwoPow63) }

\* a decoder: its successful result becomes the program's Amount (before is
\* the Amount in hand when the decoder is called)
Decode(rec) ==
    /\ pc # "panicked"
    /\ \E r \in {rec} :
        /\ last' = r
        /\ pc' = IF IsOk(r.result) THEN "run" ELSE pc
        /\ amount' = IF IsOk(r.result) THEN r.result.val ELSE amount
        /\ UNCHANGED <<ops, text, addrVars>>

Deserialize ==
    \E v \in Values :
        Decode([result |-> visit_u64(v), op |-> "deserialize", arg |-> v, before |-> amount])

FromSql ==
    \E x \in SqlValues :
        Decode([result |-> from_sql(x), op |-> "from_sql", arg |-> x, before |-> amount])

ToSql ==
    /\ pc = "run"
    /\ last' = [self |-> amount, result |-> Ok(to_sql(amount)), op |-> "to_sql"]
    /\ UNCHANGED <<amount, pc, ops, text, addrVars>>

\* the column value just written is read back
FromSqlStored ==
    /\ last.op = "to_sql"
    /\ Decode([result |-> from_sql(last.result.val), op |-> "from_sql_stored",
               arg |-> last.result.val, before |-> amount])

NextCodec ==
    \/ Deserialize
    \/ FromSql
    \/ ToSql
    \/ FromSqlStored

SpecCodec == Init /\ [][NextCodec]_vars

\* ------------------------------------------------------------------------
\* The address program: texts are parsed from a &str, a String and a
\* Box<str>; the address parsed is formatted, parsed again, classified and
\* resolved

MaxLookups == 2

\* the node id of the tests of p2p_address.rs, and the same in upper case
TestId ==
    [i \in 1..66 |-> IF i = 2 THEN "2"
                     ELSE IF i <= 60 THEN Digits[((i - 1) % 10) + 1]
                     ELSE HexLower[i - 50]]

UpperId == [i \in 1..66 |-> IF i <= 60 THEN TestId[i] ELSE HexUpper[i - 50]]

\* one character short, one character that is no hex digit, empty
ShortId == SubSeq(TestId, 1, 65)
BadHexId == SubSeq(TestId, 1, 65) \o <<"g">>
BadIds == { ShortId, BadHexId, <<>> }

\* what stands after the '@'
HostPorts ==
    { <<>>,
      <<":">>,
      <<"[", "]">>,
      <<"[">>,
      <<"]">>,
      <<"e", "x", "a", "m", "p", "l", "e", ".", "c", "o", "m">>,
      <<"e", "x", "a", "m", "p", "l", "e", ".", "c", "o", "m", ":", "1", "2", "3", "4">>,
      <<"e", "x", "a", "m", "p", "l", "e", ".", "c", "o", "m", ":", "f", "o", "o">>,
      <<"e", "x", "a", "m", "p", "l", "e", ".", "c", "o", "m", ":">>,
      <<"e", "x", "a", "m", "p", "l", "e", ".", "c", "o", "m", ":", "6", "5", "5", "3", "5">>,
      <<"e", "x", "a", "m", "p", "l", "e", ".", "c", "o", "m", ":", "6", "5", "5", "3", "6">>,
      <<"e", "x", "a", "m", "p", "l", "e", ".", "c", "o", "m", ":", "+", "8", "0">>,
      <<"e", "x", "a", "m", "p", "l", "e", ".", "c", "o", "m", ":", "0", "0", "8", "0">>,
      <<"e", "x", "a", "m", "p", "l", "e", ".", "c", "o", "m", ":", "-", "1">>,
      <<"1", "2", "7", ".", "0", ".", "0", ".", "1">>,
      <<"1", "2", "7", ".", "0", ".", "0", ".", "1", ":", "1", "2", "3", "4">>,
      <<"1", "2", "7", ".", "0", ".", "0", ".", "0", "1">>,
      <<"2", "5", "6", ".", "0", ".", "0", ".", "1", ":", "8", "0">>,
      <<"[", "1", ".", "2", ".", "3", ".", "4", "]">>,
      <<"[", ":", ":", "1", "]">>,
      <<"[", ":", ":", "1", "]", ":", "1", "2", "3", "4">>,
      <<"[", ":", ":", "1", "]", ":", "9", "7", "3", "5">>,
      <<":", ":", "1">>,
      <<":", ":", "1", ":", "8", "0">>,
      <<"2", "0", "0", "1", ":", "d", "b", "8", ":", ":", "1">>,
      <<"[", "2", "0", "0", "1", ":", "d", "b", "8", ":", ":", "1", "]", ":", "8", "0">>,
      <<"[", "0", ":", "0", ":", "0", ":", "0", ":", "0", ":", "0", ":", "0", ":", "1", "]">>,
      <<"[", "F", "F", "F", "F", ":", ":", "1", "]", ":", "8", "0">>,
      <<"[", ":", ":", "f", "f", "f", "f", ":", "1", ".", "2", ".", "3", ".", "4", "]", ":", "7">>,
      <<"[", "z", "z", "]">>,
      <<"[", "z", "z", "]", ":", "f", "o", "o">>,
      <<"[", "z", "z", "]", ":", "8", "0">>,
      <<"[", ":", ":", "1">>,
      <<"[", ":", ":", "1", "]", "x">>,
      <<"[", ":", ":", "1", "]", ":", "8", "0", "]">>,
      <<"[", ":", ":", "1", "]", ":">>,
      <<"a", "@", "b", ":", "7">>,
      <<"@">>,
      <<"a", ":", "b", ":", "8", "0">>,
      <<":", "8", "0">>,
      <<"x", ".", "o", "n", "i", "o", "n">>,
      <<"x", ".", "o", "n", "i", "o", "n", ":", "8", "0">>,
      <<"o", "n", "i", "o", "n">>,
      <<".", "o", "n", "i", "o", "n">>,
      <<"x", ".", "o", "n", "i", "o", "n", ".">>,
      <<"l", "n", "-", "a", "s", "k", ".", "m", "e">> }

\* what stands after the '@' of an invalid node id
FewHostPorts ==
    { <<>>,
      <<"e", "x", "a", "m", "p", "l", "e", ".", "c", "o", "m">>,
      <<"1", "2", "7", ".", "0", ".", "0", ".", "1">>,
      <<"e", "x", "a", "m", "p", "l", "e", ".", "c", "o", "m", ":", "f", "o", "o">>,
      <<"[", "z", "z", "]">>,
      <<"[", "z", "z", "]", ":", "f", "o", "o">>,
      <<"[", ":", ":", "1", "]", ":", "1", "2", "3", "4">>,
      <<"a", "@", "b", ":", "7">> }

AddrTexts ==
    { id \o <<"@">> \o hp : id \in { TestId, UpperId }, hp \in HostPorts }
    \cup { id \o <<"@">> \o hp : id \in BadIds, hp \in FewHostPorts }
    \cup { <<>>, TestId, <<"e", "x", "a", "m", "p", "l", "e", ".", "c", "o", "m", ":", "1", "2", "3", "4">>, TestId \o <<"[", ":", ":", "1", "]", ":", "f", "o", "o">> }
    \cup { <<"x", "@">> \o hp : hp \in { <<>>, <<":">>, <<"[", "]">>, <<"[">>, <<"]">> } }

\* what the platform resolver may answer: an error, or the addresses found
LookupFailed == [kind |-> "io::Error", why |-> "lookup failed"]
Answers ==
    { Err(LookupFailed),
      Ok(<<V4(<<93, 184, 216, 34>>)>>),
      Ok(<<V4(<<93, 184, 216, 34>>), V6(<<9734, 10240, 544, 1, 584, 6419, 9672, 6470>>)>>) }

\* what parsing a &str answers on each text of AddrTexts (each parsed once)
ParsedAddrTexts == [t \in AddrTexts |-> p2p_internal_parse("str", t, TRUE)]

Held(result) == IF IsOk(result) THEN Some(result.val) ELSE None

\* s.parse::<P2PAddress>() and P2PAddress::try_from(&str) of a new text: the
\* first one, or the next one once the address in hand has been resolved
AddrFromStr ==
    \E t \in AddrTexts :
        /\ did.op \in {"none", "to_socket_addrs", "host_port_to_socket_addrs"}
        /\ \E r \in {ParsedAddrTexts[t]} :
            /\ did' = [kind |-> "str", result |-> r, input |-> t, op |-> "parse"]
            /\ address' = Held(r)
            /\ outcomes' = [input |-> t,
                            results |-> [k \in StringKinds |-> IF k = "str" THEN r ELSE NotParsed]]
        /\ UNCHANGED <<amount, text, pc, ops, last, lookups>>

\* the same text handed over as an owned string of the given kind
TryFromOwned(kind) ==
    /\ outcomes.results["str"] # NotParsed
    /\ outcomes.results[kind] = NotParsed
    /\ \E checks \in BOOLEAN :
        \E r \in {p2p_internal_parse(kind, outcomes.input, checks)} :
            /\ did' = [kind |-> kind, result |-> r, input |-> outcomes.input, op |-> "parse"]
            /\ address' = Held(r)
            /\ outcomes' = [outcomes EXCEPT !.results[kind] = r]
    /\ UNCHANGED <<amount, text, pc, ops, last, lookups>>

\* P2PAddress::try_from(String)
AddrTryFromString == TryFromOwned("String")

\* P2PAddress::try_from(Box<str>)
AddrTryFromBox == TryFromOwned("Box")

\* address.to_string(), or format!("{:#}", address)
AddrDisplay ==
    /\ address.some
    /\ \E alternate \in BOOLEAN :
        \E s \in {p2p_fmt(address.val, alternate)} :
            did' = [self |-> address.val, result |-> s, alternate |-> alternate, op |-> "to_string"]
    /\ UNCHANGED <<amount, text, pc, ops, last, address, lookups, outcomes>>

\* s.parse::<P2PAddress>() of the text just formatted
AddrReparse ==
    /\ did.op = "to_string"
    /\ \E r \in {p2p_internal_parse("str", did.result, TRUE)} :
        /\ did' = [kind |-> "str", result |-> r, input |-> did.result, alternate |-> did.alternate,
                   op |-> "reparse", before |-> address.val]
        /\ address' = Held(r)
    /\ UNCHANGED <<amount, text, pc, ops, last, lookups, outcomes>>

\* address.host.is_onion()
IsOnion ==
    /\ address.some
    /\ did' = [self |-> address.val.host, result |-> is_onion(address.val.host), op |-> "is_onion"]
    /\ UNCHANGED <<amount, text, pc, ops, last, address, lookups, outcomes>>

\* address.host.is_ip_addr()
IsIpAddr ==
    /\ address.some
    /\ did' = [self |-> address.val.host, result |-> is_ip_addr(address.val.host), op |-> "is_ip_addr"]
    /\ UNCHANGED <<amount, text, pc, ops, last, address, lookups, outcomes>>

\* IpAddr::try_from(address.host)
IpAddrTryFrom ==
    /\ address.some
    /\ did' = [self |-> address.val.host, result |-> ip_addr_try_from(address.val.host),
               op |-> "ip_addr_try_from"]
    /\ UNCHANGED <<amount, text, pc, ops, last, address, lookups, outcomes>>

\* a call of to_socket_addrs: the calls it makes reach the platform resolver
Resolve(op, r, self) ==
    /\ did' = [self |-> self, result |-> r.result, calls |-> r.calls, op |-> op, before |-> lookups]
    /\ lookups' = lookups + Len(r.calls)
    /\ UNCHANGED <<amount, text, pc, ops, last, address, outcomes>>

\* address.as_host_port().to_socket_addrs()
HostPortToSocketAddrs ==
    /\ address.some
    /\ lookups < MaxLookups
    /\ \E answer \in Answers :
        LET hp == as_host_port(address.val)
        IN  Resolve("host_port_to_socket_addrs", to_socket_addrs(hp[1], hp[2], answer), address.val)

\* address.to_socket_addrs()
AddrToSocketAddrs ==
    /\ address.some
    /\ lookups < MaxLookups
    /\ \E answer \in Answers :
        Resolve("to_socket_addrs", p2p_to_socket_addrs(address.val, answer), address.val)

NextAddr ==
    \/ AddrFromStr
    \/ AddrTryFromString
    \/ AddrTryFromBox
    \/ AddrDisplay
    \/ AddrReparse
    \/ IsOnion
    \/ IsIpAddr
    \/ IpAddrTryFrom
    \/ HostPortToSocketAddrs
    \/ AddrToSocketAddrs

SpecAddr == Init /\ [][NextAddr]_vars

\* ------------------------------------------------------------------------
\* The parsers alone: texts handed to Amount and to P2PAddress

\* texts around the unit: the unit alone, twice, cut short, with a numeral
EdgeTexts ==
    { <<>>, Unit, Unit \o Unit, Tail(Unit), <<"t">>, <<"5">> \o Unit, <<"5">>,
      <<"5", " ", "m", "s", "a">>, Numeral(TwoPow64) \o Unit }

\* s.parse::<Amount>() of such a text, before an Amount is held
AmountFromStr ==
    \E t \in EdgeTexts :
        Take([result |-> internal_parse(t), input |-> t, op |-> "from_str"])

NextParse ==
    \/ AmountFromStr
    \/ AddrFromStr
    \/ AddrTryFromString
    \/ AddrTryFromBox

SpecParse == Init /\ [][NextParse]_vars

\* ------------------------------------------------------------------------
\* The properties

\* 21_000_000 * 10^8 * 1000 millisatoshi, 21_000_000 * 10^8 satoshi and 2^64 - 1,
\* written out limb by limb
CapMsat == <<0, 0, 0, 0, 0, 100, 2>>
CapSat == <<0, 0, 0, 0, 100, 2>>
MaxU64 == <<615, 551, 709, 73, 744, 446, 18>>

AddOps == {"add", "add_assign"}
SubOps == {"sub", "sub_assign"}
MulOps == {"mul", "u64_mul", "mul_assign"}
DivOps == {"div", "div_assign"}
RemOps == {"rem", "rem_assign"}
AssignOps == {"add_assign", "sub_assign", "mul_assign", "div_assign", "rem_assign"}

\* C1: from any constructed Amount, after any sequence of the operators that does
\* not panic, the stored millisatoshi value is at most 21_000_000 * 10^8 * 1000,
\* and no operation that returns yields an Amount above it.
C1_AmountWithinCap ==
    /\ BLeq(amount[1], CapMsat)
    /\ IsOk(last.result) => BLeq(last.result.val[1], CapMsat)

C1_Witness ==
    /\ last.op = "add_assign"
    /\ ops >= 1
    /\ pc = "run"
    /\ amount[1] = CapMsat
    /\ last.lhs[1] # CapMsat

\* C2: from_msat(v) succeeds iff v <= 21_000_000 * 10^11, to_msat() of the result
\* is v, a failure is an OverflowError carrying v and "millisatoshis", and
\* from_msat(cap) is Amount::MAX.
C2_FromMsat ==
    last.op = "from_msat" =>
        LET v == last.arg
            r == last.result
        IN  /\ IsOk(r) <=> BLeq(v, CapMsat)
            /\ IsOk(r) => to_msat(r.val) = v /\ amount = r.val
            /\ ~IsOk(r) =>
                /\ IsErr(r)
                /\ r.err.kind = "OverflowError"
                /\ r.err.amount = v
                /\ r.err.denomination = "millisatoshis"
            /\ v = CapMsat => IsOk(r) /\ r.val = MAX

C2_Witness ==
    /\ last.op = "from_msat"
    /\ last.arg = CapMsat
    /\ IsOk(last.result)
    /\ amount = MAX

\* C3: from_sat(s) succeeds iff s <= 21_000_000 * 10^8 and then holds exactly
\* 1000 * s, a product that fits 64 bits; every larger s is an OverflowError
\* carrying s and "satoshis", also when s * 1000 modulo 2^64 is under the cap.
C3_FromSat ==
    last.op = "from_sat" =>
        LET s == last.arg
            r == last.result
        IN  /\ IsOk(r) <=> BLeq(s, CapSat)
            /\ IsOk(r) =>
                /\ to_msat(r.val) = BMul(s, Big(1000))
                /\ BLeq(BMul(s, Big(1000)), MaxU64)
            /\ ~BLeq(s, CapSat) =>
                /\ IsErr(r)
                /\ r.err.kind = "OverflowError"
                /\ r.err.amount = s
                /\ r.err.denomination = "satoshis"

C3_Witness ==
    /\ last.op = "from_sat"
    /\ BLess(CapSat, last.arg)
    /\ BLess(MaxU64, BMul(last.arg, Big(1000)))
    /\ BLeq(BMod(BMul(last.arg, Big(1000)), BAdd(MaxU64, Big(1))), CapMsat)
    /\ IsErr(last.result)

\* C4: a + b and a += b give exactly a.to_msat() + b.to_msat() when that is within
\* the cap and panic otherwise; the 64-bit sum of two Amounts never wraps.
C4_Add ==
    last.op \in AddOps =>
        LET t == BAdd(last.lhs[1], last.rhs[1])
            r == last.result
        IN  /\ BLeq(t, MaxU64)
            /\ IF BLeq(t, CapMsat)
               THEN IsOk(r) /\ to_msat(r.val) = t
               ELSE IsPanic(r) /\ pc = "panicked"
            /\ last.op = "add_assign" /\ IsOk(r) => amount = r.val
            /\ last.op = "add" \/ IsPanic(r) => amount = last.lhs

C4_Witness ==
    /\ last.op = "add_assign"
    /\ BLess(CapMsat, BAdd(last.lhs[1], last.rhs[1]))
    /\ IsPanic(last.result)
    /\ ops = MaxOps

\* C5: a * k, k * a and a *= k give exactly the product when it is within the cap
\* and panic when it is above, also when the product modulo 2^64 is within the
\* cap; so k * a and a * k agree.
C5_Mul ==
    last.op \in MulOps =>
        LET p == BMul(last.lhs[1], last.rhs)
            r == last.result
        IN  /\ IF BLeq(p, CapMsat)
               THEN IsOk(r) /\ to_msat(r.val) = p
               ELSE IsPanic(r) /\ pc = "panicked"
            /\ last.op = "mul_assign" /\ IsOk(r) => amount = r.val
            /\ last.op # "mul_assign" \/ IsPanic(r) => amount = last.lhs

C5_Witness ==
    /\ last.op = "u64_mul"
    /\ BLess(MaxU64, BMul(last.lhs[1], last.rhs))
    /\ BLeq(BMod(BMul(last.lhs[1], last.rhs), BAdd(MaxU64, Big(1))), CapMsat)
    /\ IsPanic(last.result)

\* C6: a - b panics iff b > a and is otherwise the exact difference; a / k and
\* a % k panic iff k = 0 and are otherwise the quotient and the remainder, both
\* at most a; an operation that panics produces no value.
C6_SubDivRem ==
    LET a == last.lhs[1]
        r == last.result
    IN  /\ last.op \in SubOps =>
            /\ IsPanic(r) <=> BLess(a, last.rhs[1])
            /\ ~IsPanic(r) => IsOk(r) /\ BAdd(to_msat(r.val), last.rhs[1]) = a
        /\ last.op \in DivOps =>
            /\ IsPanic(r) <=> last.rhs = <<>>
            /\ ~IsPanic(r) =>
                /\ IsOk(r)
                /\ BLeq(BMul(to_msat(r.val), last.rhs), a)
                /\ BLess(a, BMul(BAdd(to_msat(r.val), Big(1)), last.rhs))
                /\ BLeq(to_msat(r.val), a)
        /\ last.op \in RemOps =>
            /\ IsPanic(r) <=> last.rhs = <<>>
            /\ ~IsPanic(r) =>
                /\ IsOk(r)
                /\ BLess(to_msat(r.val), last.rhs)
                /\ BLeq(to_msat(r.val), a)
                /\ \E q \in {BDiv(BSub(a, to_msat(r.val)), last.rhs)} :
                       BAdd(BMul(q, last.rhs), to_msat(r.val)) = a
        /\ last.op \in SubOps \cup DivOps \cup RemOps /\ IsPanic(r) =>
            /\ DOMAIN r = {"outcome", "msg"}
            /\ amount = last.lhs
            /\ pc = "panicked"
        /\ last.op \in {"sub_assign", "div_assign", "rem_assign"} /\ IsOk(r) => amount = r.val

C6_Witness ==
    /\ last.op = "rem_assign"
    /\ IsOk(last.result)
    /\ last.rhs = Big(9)
    /\ amount # ZERO
    /\ BLess(Big(9), last.lhs[1])

ConvOps == {"to_msat", "to_sat", "to_sat_floor", "to_sat_ceiling", "to_sat_round"}

\* v is a whole number of satoshi: its lowest base-1000 limb is zero
WholeSat(v) == v = <<>> \/ v[1] = 0

\* C7: for every Amount v, to_sat_floor <= to_sat_round <= to_sat_ceiling with
\* ceiling - floor <= 1; v + 999 and v + 500 fit 64 bits; to_sat succeeds iff v is
\* a multiple of 1000 and then equals all three, and otherwise its FractionError
\* carries v.
C7_ToSat ==
    pc = "run" =>
        LET v == to_msat(amount)
            f == to_sat_floor(amount)
            e == to_sat(amount)
            k == Big(1000)
        IN  /\ BLeq(BAdd(v, Big(999)), MaxU64)
            /\ BLeq(BAdd(v, Big(500)), MaxU64)
            /\ IsOk(f)
            /\ BLeq(BMul(f.val, k), v) /\ BLess(v, BMul(BAdd(f.val, Big(1)), k))
            /\ \A checks \in BOOLEAN :
                LET c == to_sat_ceiling(amount, checks)
                    r == to_sat_round(amount, checks)
                IN  /\ IsOk(c) /\ IsOk(r)
                    /\ BLeq(f.val, r.val) /\ BLeq(r.val, c.val)
                    /\ BLeq(c.val, BAdd(f.val, Big(1)))
                    /\ BLeq(v, BMul(c.val, k)) /\ BLess(BMul(c.val, k), BAdd(v, k))
                    /\ BLeq(BMul(r.val, k), BAdd(v, Big(500)))
                    /\ BLess(BAdd(v, Big(500)), BMul(BAdd(r.val, Big(1)), k))
                    /\ WholeSat(v) => e.val = f.val /\ e.val = r.val /\ e.val = c.val
            /\ IsOk(e) <=> WholeSat(v)
            /\ ~IsOk(e) => IsErr(e) /\ e.err.kind = "FractionError" /\ e.err.amount = v
            /\ last.op \in ConvOps => last.self = amount
            /\ last.op = "to_msat" => last.result.val = v
            /\ last.op = "to_sat" => last.result = e
            /\ last.op = "to_sat_floor" => last.result = f
            /\ last.op = "to_sat_ceiling" => last.result = to_sat_ceiling(amount, TRUE)
            /\ last.op = "to_sat_round" => last.result = to_sat_round(amount, TRUE)

C7_Witness ==
    /\ last.op = "to_sat"
    /\ IsErr(last.result)
    /\ last.result.err.amount = BSub(CapMsat, Big(1))
    /\ to_sat_ceiling(amount, TRUE).val = CapSat
    /\ to_sat_floor(amount).val = BSub(CapSat, Big(1))

ParseOps == {"try_from", "parse"}

\* C8: the Display text of from_msat(x) is the decimal numeral of x followed by
\* " msat"; parsing that text, or the numeral alone, gives from_msat(x) back.
C8_DisplayRoundTrip ==
    /\ last.op = "to_string" =>
        /\ last.result.val = Numeral(to_msat(last.self)) \o Unit
        /\ text = last.result.val
    /\ last.op = "parse" /\ text # <<>> =>
        /\ last.input \in { Numeral(to_msat(amount)) \o Unit, Numeral(to_msat(amount)) }
        /\ last.result = Ok(amount)
        /\ last.result = from_msat(to_msat(amount))
    /\ last.op = "try_from" =>
        \A v \in TextValues :
            BLeq(v, CapMsat) /\ last.input \in { Numeral(v) \o Unit, Numeral(v) } =>
                IsOk(last.result) /\ last.result = from_msat(v)

C8_Witness ==
    /\ last.op = "parse"
    /\ text = Numeral(CapMsat) \o Unit
    /\ last.input = Numeral(CapMsat)
    /\ last.result = Ok(MAX)

DecimalDigits == {"0", "1", "2", "3", "4", "5", "6", "7", "8", "9"}

AllDigits(s) == \A i \in 1..Len(s) : s[i] \in DecimalDigits

\* the value of a string of decimal digits, the leftmost digit first (Len(acc) is
\* read so that each step's sum is evaluated before the next step starts)
RECURSIVE DecFrom(_, _, _)
DecFrom(s, i, acc) ==
    IF i > Len(s) \/ Len(acc) < 0 THEN acc
    ELSE DecFrom(s, i + 1,
                 BAdd(BMulSmall(acc, 10), Big((CHOOSE k \in 1..10 : Digits[k] = s[i]) - 1)))

DecValue(s) == DecFrom(s, 1, <<>>)

\* an unsigned decimal integer: digits only, at least one
UnsignedNumeral(s) == s # <<>> /\ AllDigits(s)

\* the digits of a numeral that may start with one '+'
Unsigned(s) == IF s # <<>> /\ s[1] = "+" THEN Tail(s) ELSE s

\* C9 as stated: parsing accepts an input iff, one trailing " msat" removed, the
\* rest is a non-empty string of decimal digits (no sign) of value <= the cap.
C9_Original ==
    last.op \in ParseOps =>
        LET body == WithoutUnit(last.input)
        IN  IsOk(last.result) <=> (UnsignedNumeral(body) /\ BLeq(DecValue(body), CapMsat))

\* C9 (amended): parsing accepts an input iff, one trailing " msat" removed, the
\* rest is an optional single '+' followed by a non-empty string of decimal digits
\* of value <= the cap; the Amount is that value.
C9_Amended ==
    last.op \in ParseOps =>
        LET body == Unsigned(WithoutUnit(last.input))
        IN  /\ IsOk(last.result) <=> (UnsignedNumeral(body) /\ BLeq(DecValue(body), CapMsat))
            /\ IsOk(last.result) => to_msat(last.result.val) = DecValue(body)

C9_Witness ==
    /\ last.op = "try_from"
    /\ last.input = <<"+", "5">>
    /\ last.result = Ok(Amount(Big(5)))

\* C10: a failed parse keeps the whole input and gives the reason: an
\* OverflowError naming "millisatoshis" with the value when the numeral fits 64
\* bits but is above the cap, an integer-parse error otherwise (the empty string,
\* a numeral too large for 64 bits, anything that is no numeral).
C10_ParseErrors ==
    last.op \in ParseOps /\ ~IsOk(last.result) =>
        LET e == last.result.err
            body == Unsigned(WithoutUnit(last.input))
        IN  /\ IsErr(last.result)
            /\ e.kind = "ParseError"
            /\ e.input = last.input
            /\ IF UnsignedNumeral(body) /\ BLeq(DecValue(body), MaxU64)
               THEN /\ BLess(CapMsat, DecValue(body))
                    /\ e.reason.variant = "Overflow"
                    /\ e.reason.error.kind = "OverflowError"
                    /\ e.reason.error.amount = DecValue(body)
                    /\ e.reason.error.denomination = "millisatoshis"
               ELSE /\ e.reason.variant = "ParseInt"
                    /\ e.reason.error.kind = "ParseIntError"
            /\ last.input = <<>> => e.reason.variant = "ParseInt"

C10_Witness ==
    /\ last.op = "try_from"
    /\ last.input = Numeral(BAdd(CapMsat, Big(1))) \o Unit
    /\ IsErr(last.result)
    /\ last.result.err.input = last.input
    /\ last.result.err.reason.variant = "Overflow"
    /\ last.result.err.reason.error.amount = BAdd(CapMsat, Big(1))

\* ------------------------------------------------------------------------
\* The properties of P2PAddress

AddrParseOps == {"parse", "reparse"}

HasAt(t) == \E i \in 1..Len(t) : t[i] = "@"

\* the text up to the first '@', and the text after it
RECURSIVE IdentityPart(_)
IdentityPart(t) ==
    IF t = <<>> \/ Head(t) = "@" THEN <<>> ELSE <<Head(t)>> \o IdentityPart(Tail(t))

HostPortPart(t) == SubSeq(t, Len(IdentityPart(t)) + 2, Len(t))

\* a text with its hex letters in lower case
LowerCase(t) ==
    [i \in 1..Len(t) |-> IF \E d \in 11..16 : HexUpper[d] = t[i]
                         THEN HexLower[CHOOSE d \in 11..16 : HexUpper[d] = t[i]]
                         ELSE t[i]]

IsPrefix(p, t) == Len(p) <= Len(t) /\ SubSeq(t, 1, Len(p)) = p

FailsWith(result, variant) == IsErr(result) /\ result.err.reason.variant = variant

\* C11: parsing fails with MissingAtSymbol iff the input holds no '@' (the empty
\* input included); with an '@', the text before the first '@' is what the
\* identity parser gets, and the text after it, further '@' included, is the
\* host and port: an accepted identity is that text, a rejected one is
\* reported with that text, and a hostname starts right after the first '@'
\* and runs to the end of the input or to a ':'
C11_MissingAt ==
    did.op \in AddrParseOps =>
        /\ FailsWith(did.result, "MissingAtSymbol") <=> ~HasAt(did.input)
        /\ FailsWith(did.result, "InvalidNodeId") =>
               did.result.err.reason.error.input = IdentityPart(did.input)
        /\ IsOk(did.result) =>
               /\ HasAt(did.input)
               /\ node_id_fmt(did.result.val.node_id, FALSE) = LowerCase(IdentityPart(did.input))
               /\ did.result.val.host[1].variant = "Hostname" =>
                      LET hostname == did.result.val.host[1].hostname
                          rest     == HostPortPart(did.input)
                      IN  /\ IsPrefix(hostname, rest)
                          /\ Len(hostname) = Len(rest) \/ rest[Len(hostname) + 1] = ":"

\* an input with two '@' is accepted: the second '@' is part of the hostname
C11_Witness ==
    /\ did.op = "parse"
    /\ IsOk(did.result)
    /\ did.result.val.host[1].variant = "Hostname"
    /\ HasAt(did.result.val.host[1].hostname)
    /\ Len(IdentityPart(did.input)) = 66

HasChar(t, c) == \E i \in 1..Len(t) : t[i] = c

\* the text after the last ':' of a text that holds one, and the text before it
RECURSIVE AfterLastColon(_)
AfterLastColon(t) == IF ~HasChar(t, ":") THEN t ELSE AfterLastColon(Tail(t))

BeforeLastColon(t) == SubSeq(t, 1, Len(t) - Len(AfterLastColon(t)) - 1)

Wrapped(t) == t # <<>> /\ Head(t) = "[" /\ t[Len(t)] = "]"

Inside(t) == SubSeq(t, 2, Len(t) - 1)

\* a decimal number in 0..65535: digits, possibly after one '+'
PortNumber(t) == UnsignedNumeral(Unsigned(t)) /\ BLeq(DecValue(Unsigned(t)), Big(65535))

ValidIdentity(t) ==
    LET id == IdentityPart(t)
    IN  Len(id) = 66 /\ \A i \in 1..66 : id[i] \in DecimalDigits \/ LowerCase(<<id[i]>>)[1] \in {"a", "b", "c", "d", "e", "f"}

\* the host of an address is what the text stands for
HostIs(host, t) ==
    IF host[1].variant = "Hostname" THEN host[1].hostname = t
    ELSE IF host[1].ip.family = "V4" THEN fmt_ipv4(host[1].ip.addr) = t
    ELSE Wrapped(t) /\ parse_ipv6(Inside(t)) = Ok(host[1].ip.addr)

\* C12: with a valid identity, the text after '@' is split so: wrapped in
\* '[' and ']', it is the host and the port is 9735; else, with a ':' in it,
\* the text before the last ':' is the host and the text after it is the port,
\* which is a decimal number in 0..65535 (as the integer parser reads it) or
\* else the parse fails with InvalidPortNumber; else it is the host and the
\* port is 9735
C12_HostPortSplit ==
    (did.op \in AddrParseOps /\ HasAt(did.input) /\ ValidIdentity(did.input)) =>
        LET rest == HostPortPart(did.input)
            r    == did.result
        IN  IF Wrapped(rest)
            THEN /\ ~FailsWith(r, "InvalidPortNumber")
                 /\ IsOk(r) => r.val.port = 9735 /\ HostIs(r.val.host, rest)
            ELSE IF HasChar(rest, ":")
            THEN IF PortNumber(AfterLastColon(rest))
                 THEN /\ ~FailsWith(r, "InvalidPortNumber")
                      /\ IsOk(r) => /\ Big(r.val.port) = DecValue(Unsigned(AfterLastColon(rest)))
                                    /\ HostIs(r.val.host, BeforeLastColon(rest))
                 ELSE FailsWith(r, "InvalidPortNumber")
            ELSE /\ ~FailsWith(r, "InvalidPortNumber")
                 /\ IsOk(r) => r.val.port = 9735 /\ HostIs(r.val.host, rest)

\* a host with a ':' of its own is accepted with the port after the last ':'
C12_Witness ==
    /\ did.op = "parse"
    /\ IsOk(did.result)
    /\ did.result.val.port = 80
    /\ did.result.val.host[1].variant = "Hostname"
    /\ HasChar(did.result.val.host[1].hostname, ":")

\* C13: for every accepted input, formatting the address and parsing the text
\* again succeeds and gives the same identity, the same host (variant, address
\* or hostname text) and the same port; formatting the second address gives
\* the text that was parsed
C13_RoundTrip ==
    did.op = "reparse" =>
        /\ IsOk(did.result)
        /\ did.result.val.node_id = did.before.node_id
        /\ did.result.val.host[1].variant = did.before.host[1].variant
        /\ did.result.val.host = did.before.host
        /\ did.result.val.port = did.before.port
        /\ p2p_fmt(did.result.val, did.alternate) = did.input

\* the round trip of an IPv6 address that was written without a port
C13_Witness ==
    /\ did.op = "reparse"
    /\ IsOk(did.result)
    /\ did.result.val.host[1].variant = "Ip"
    /\ did.result.val.host[1].ip.family = "V6"
    /\ Wrapped(HostPortPart(outcomes.input))
    /\ outcomes.input # did.input

\* the canonical text of a host next to a port
HostText(host) ==
    IF host[1].variant = "Hostname" THEN host[1].hostname
    ELSE IF host[1].ip.family = "V4" THEN fmt_ipv4(host[1].ip.addr)
    ELSE <<"[">> \o fmt_ipv6(host[1].ip.addr) \o <<"]">>

ExplicitPort(rest) == ~Wrapped(rest) /\ HasChar(rest, ":")

\* the host text of an accepted input
HostPartOf(rest) == IF ExplicitPort(rest) THEN BeforeLastColon(rest) ELSE rest

DefaultPortSuffix == <<":", "9", "7", "3", "5">>

\* what every formatted address looks like: the identity, '@', the host with
\* brackets iff it is an IPv6 address, ':' and the port, 9735 included
Emitted(call, t) ==
    /\ SubSeq(call.result, 67, Len(call.result)) =
           <<"@">> \o HostText(call.self.host) \o <<":">> \o Numeral(Big(call.self.port))
    /\ ~call.alternate => SubSeq(call.result, 1, 66) = LowerCase(IdentityPart(t))
    /\ Wrapped(SubSeq(call.result, 68, Len(call.result) - Len(Numeral(Big(call.self.port))) - 1))
           <=> (call.self.host[1].variant = "Ip" /\ call.self.host[1].ip.family = "V6")

\* the claim as stated (identity and host text in their canonical form): C14
\* with 'an accepted input that has an explicit port and canonical host text
\* formats back to the identical string', whatever the text of the port
C14_Original ==
    (did.op = "to_string" /\ ~did.alternate) =>
        LET t    == outcomes.input
            rest == HostPortPart(t)
            canonical == /\ IdentityPart(t) = LowerCase(IdentityPart(t))
                         /\ HostPartOf(rest) = HostText(did.self.host)
        IN  /\ Emitted(did, t)
            /\ (canonical /\ ExplicitPort(rest)) => did.result = t
            /\ (canonical /\ ~ExplicitPort(rest)) => did.result = t \o DefaultPortSuffix

\* C14 (amended): formatting always emits "<identity>@<host>:<port>", the port
\* also when it is 9735, the host in '[' ']' iff it is an IPv6 address; an
\* accepted input with a lower-case identity, canonical host text and an
\* explicit port written as plain decimal (no '+', no leading zero) formats
\* back to the identical string, and one with a lower-case identity and
\* canonical host text but no port formats to the input followed by ":9735"
C14_Amended ==
    did.op = "to_string" =>
        LET t    == outcomes.input
            rest == HostPortPart(t)
            canonical == /\ IdentityPart(t) = LowerCase(IdentityPart(t))
                         /\ HostPartOf(rest) = HostText(did.self.host)
        IN  /\ Emitted(did, t)
            /\ (~did.alternate /\ canonical /\ ExplicitPort(rest)
                    /\ AfterLastColon(rest) = Numeral(Big(did.self.port))) => did.result = t
            /\ (~did.alternate /\ canonical /\ ~ExplicitPort(rest)) =>
                   did.result = t \o DefaultPortSuffix

\* a bracketed IPv6 address with a port comes back as it was written
C14_Witness ==
    /\ did.op = "to_string"
    /\ ~did.alternate
    /\ did.self.host[1].variant = "Ip"
    /\ did.self.host[1].ip.family = "V6"
    /\ ExplicitPort(HostPortPart(outcomes.input))
    /\ did.result = outcomes.input

EndsWithOnion(t) == Len(t) >= 6 /\ SubSeq(t, Len(t) - 5, Len(t)) = <<".", "o", "n", "i", "o", "n">>

\* C15: a Host is exactly one of an IP address and a hostname, and the
\* classifiers agree with that: is_ip_addr() iff it is an IP address;
\* is_onion() iff it is a hostname whose text ends with ".onion"; never both;
\* the conversion to an IP address succeeds, with that address, iff
\* is_ip_addr(), and else fails with NotIpAddr holding the hostname
C15_Classifiers ==
    did.op \in {"is_onion", "is_ip_addr", "ip_addr_try_from"} =>
        LET inner == did.self[1]
        IN  /\ \/ inner.variant = "Ip" /\ DOMAIN inner = {"variant", "ip"}
               \/ inner.variant = "Hostname" /\ DOMAIN inner = {"variant", "hostname"}
            /\ did.op = "is_ip_addr" =>
                   /\ did.result <=> inner.variant = "Ip"
                   /\ did.result => ~is_onion(did.self)
            /\ did.op = "is_onion" =>
                   /\ did.result <=> (inner.variant = "Hostname" /\ EndsWithOnion(inner.hostname))
                   /\ did.result => ~is_ip_addr(did.self)
            /\ did.op = "ip_addr_try_from" =>
                   /\ IsOk(did.result) <=> is_ip_addr(did.self)
                   /\ IsOk(did.result) => inner.variant = "Ip" /\ did.result.val = inner.ip
                   /\ ~IsOk(did.result) =>
                          inner.variant = "Hostname" /\ did.result = Err(NotIpAddr(inner.hostname))

\* the conversion is refused for a hostname, here an onion address
C15_Witness ==
    /\ did.op = "ip_addr_try_from"
    /\ IsErr(did.result)
    /\ is_onion(did.self)
    /\ did.result.err.hostname = did.self[1].hostname

ResolveOps == {"to_socket_addrs", "host_port_to_socket_addrs"}

\* C16: resolving an address whose host is an onion hostname returns the
\* "resolve onion" error and makes no call to the platform resolver; for an
\* IP host the result is the one socket address of that IP and the stored
\* port, again without a call; the platform resolver is called only for
\* hostnames that are no onion addresses, with that hostname and port
C16_Resolve ==
    did.op \in ResolveOps =>
        LET inner == did.self.host[1]
            onion == inner.variant = "Hostname" /\ EndsWithOnion(inner.hostname)
        IN  /\ lookups = did.before + Len(did.calls)
            /\ onion => did.result = Err(ResolveOnion) /\ did.calls = <<>> /\ lookups = did.before
            /\ inner.variant = "Ip" =>
                   /\ did.result = Ok(<<[ip |-> inner.ip, port |-> did.self.port]>>)
                   /\ did.calls = <<>>
                   /\ lookups = did.before
            /\ did.calls # <<>> =>
                   /\ inner.variant = "Hostname"
                   /\ ~onion
                   /\ did.calls = <<[host |-> inner.hostname, port |-> did.self.port]>>

\* an onion address is refused after the resolver served another hostname
C16_Witness ==
    /\ did.op \in ResolveOps
    /\ is_onion(did.self.host)
    /\ did.result = Err(ResolveOnion)
    /\ did.before > 0
    /\ lookups = did.before

\* ------------------------------------------------------------------------
\* The properties of the adapters of Amount

\* C17: the integer adapters accept a raw value iff from_msat accepts it: serde
\* reads a u64 x iff x <= the cap; the SQL decoder reads a signed x iff
\* 0 <= x <= the cap, a negative x being refused as such and not read as a
\* large unsigned value; the SQL encoder writes a value that is never negative
\* and equals to_msat(), so that reading back what was written gives the same
\* Amount
C17_Adapters ==
    /\ last.op = "deserialize" =>
           /\ IsOk(last.result) <=> BLeq(last.arg, CapMsat)
           /\ IsOk(last.result) <=> IsOk(from_msat(last.arg))
           /\ IsOk(last.result) => last.result.val = <<last.arg>> /\ amount = <<last.arg>>
    /\ last.op \in {"from_sql", "from_sql_stored"} =>
           /\ IsOk(last.result) <=> (~last.arg.neg /\ BLeq(last.arg.mag, CapMsat))
           /\ last.arg.neg => last.result = Err([kind |-> "TryFromIntError"])
           /\ ~last.arg.neg => (IsOk(last.result) <=> IsOk(from_msat(last.arg.mag)))
           /\ IsOk(last.result) => last.result.val = <<last.arg.mag>> /\ amount = <<last.arg.mag>>
    /\ last.op = "to_sql" =>
           /\ ~last.result.val.neg
           /\ last.result.val.mag = to_msat(last.self)
    /\ last.op = "from_sql_stored" =>
           /\ IsOk(last.result)
           /\ last.result.val = last.before

\* the largest Amount is written to a column and read back
C17_Witness ==
    /\ last.op = "from_sql_stored"
    /\ IsOk(last.result)
    /\ last.result.val = <<CapMsat>>
    /\ last.before = <<CapMsat>>

\* ------------------------------------------------------------------------
\* The properties of P2PAddress, continued

\* one number of a dotted quad: up to three digits, no leading zero, 0..255
Octet(p) ==
    /\ Len(p) \in 1..3
    /\ AllDigits(p)
    /\ Len(p) > 1 => p[1] # "0"
    /\ BLeq(DecValue(p), Big(255))

DottedQuad(t) ==
    \E i, j, k \in 1..Len(t) :
        /\ i < j /\ j < k
        /\ t[i] = "." /\ t[j] = "." /\ t[k] = "."
        /\ Octet(SubSeq(t, 1, i - 1))
        /\ Octet(SubSeq(t, i + 1, j - 1))
        /\ Octet(SubSeq(t, j + 1, k - 1))
        /\ Octet(SubSeq(t, k + 1, Len(t)))

\* C18: the host text is classified in this order: a dotted quad is that IPv4
\* address; else a text in '[' and ']' is the IPv6 address between the
\* brackets or the parse fails with InvalidIpv6, never a hostname; else it is
\* a hostname equal to the text.  So an IPv6 host comes from bracketed text
\* only, and "::1" and "2001:db8::1" without brackets are split at their last
\* ':' into a hostname and a port
C18_Classify ==
    (/\ did.op \in AddrParseOps
     /\ HasAt(did.input)
     /\ ValidIdentity(did.input)
     /\ ~FailsWith(did.result, "InvalidPortNumber")) =>
        LET rest == HostPortPart(did.input)
            host == HostPartOf(rest)
            r    == did.result
        IN  /\ IF DottedQuad(host)
               THEN /\ IsOk(r)
                    /\ r.val.host[1].variant = "Ip"
                    /\ r.val.host[1].ip.family = "V4"
                    /\ fmt_ipv4(r.val.host[1].ip.addr) = host
               ELSE IF Wrapped(host)
               THEN \/ /\ IsOk(r)
                       /\ r.val.host[1].variant = "Ip"
                       /\ r.val.host[1].ip.family = "V6"
                       /\ parse_ipv6(Inside(host)) = Ok(r.val.host[1].ip.addr)
                    \/ /\ FailsWith(r, "InvalidIpv6")
                       /\ IsErr(parse_ipv6(Inside(host)))
               ELSE /\ IsOk(r)
                    /\ r.val.host = <<[variant |-> "Hostname", hostname |-> host]>>
            /\ (IsOk(r) /\ r.val.host[1].variant = "Ip" /\ r.val.host[1].ip.family = "V6") =>
                   Wrapped(host)
            /\ rest = <<":", ":", "1">> =>
                   /\ IsOk(r)
                   /\ r.val.host = <<[variant |-> "Hostname", hostname |-> <<":">>]>>
                   /\ r.val.port = 1
            /\ rest = <<"2", "0", "0", "1", ":", "d", "b", "8", ":", ":", "1">> =>
                   /\ IsOk(r)
                   /\ r.val.host = <<[variant |-> "Hostname",
                                      hostname |-> <<"2", "0", "0", "1", ":", "d", "b", "8", ":">>]>>
                   /\ r.val.port = 1

\* "2001:db8::1" without brackets is taken for a hostname and the port 1
C18_Witness ==
    /\ did.op = "parse"
    /\ HostPortPart(did.input) = <<"2", "0", "0", "1", ":", "d", "b", "8", ":", ":", "1">>
    /\ IsOk(did.result)
    /\ did.result.val.host[1].variant = "Hostname"
    /\ did.result.val.port = 1

\* the defects of an input, each found without looking at the others
BadPort(t) ==
    ExplicitPort(HostPortPart(t)) /\ ~PortNumber(AfterLastColon(HostPortPart(t)))

BadIpv6(t) ==
    /\ Wrapped(HostPartOf(HostPortPart(t)))
    /\ IsErr(parse_ipv6(Inside(HostPartOf(HostPortPart(t)))))

\* the first defect in the order of the steps of the parser
FirstDefect(t) ==
    IF ~HasAt(t) THEN "MissingAtSymbol"
    ELSE IF ~ValidIdentity(t) THEN "InvalidNodeId"
    ELSE IF BadPort(t) THEN "InvalidPortNumber"
    ELSE IF BadIpv6(t) THEN "InvalidIpv6"
    ELSE "none"

\* C19: an input with several defects is reported with exactly one of them, in
\* the order of the steps: a missing '@', then an invalid identity, then an
\* invalid port number, then an invalid bracketed IPv6 literal; an input
\* without a defect is accepted; an error comes without an address
C19_ErrorOrder ==
    did.op \in AddrParseOps =>
        /\ IsOk(did.result) <=> FirstDefect(did.input) = "none"
        /\ ~IsOk(did.result) => FailsWith(did.result, FirstDefect(did.input))
        /\ IsErr(did.result) => address = None /\ DOMAIN did.result = {"outcome", "err"}
        /\ IsOk(did.result) => address = [some |-> TRUE, val |-> did.result.val]

\* an invalid port and an invalid bracketed host together: the port is reported
C19_Witness ==
    /\ did.op = "parse"
    /\ ValidIdentity(did.input)
    /\ BadPort(did.input)
    /\ BadIpv6(did.input)
    /\ FailsWith(did.result, "InvalidPortNumber")

\* the kinds of string the text in hand has been parsed from so far
ParsedKinds == { k \in StringKinds : outcomes.results[k] # NotParsed }

\* the index just after the first '@', and that plus the length of the host
HostStart(t) == Len(IdentityPart(t)) + 1
HostEnd(t) == HostStart(t) + Len(HostPartOf(HostPortPart(t)))

\* C20: a text parsed from a &str, from a String and from a Box<str> has one
\* outcome: the same error reason, or the same identity, host and port; a
\* hostname is input[start..end], with start the index just after the first
\* '@' and end start plus the length of the host, whichever way it was cut
\* out; an error holds the whole input
C20_StringKinds ==
    \A k \in ParsedKinds :
        LET r == outcomes.results[k]
            t == outcomes.input
        IN  /\ r = outcomes.results["str"]
            /\ IsOk(r) /\ r.val.host[1].variant = "Hostname" =>
                   r.val.host[1].hostname = SubSeq(t, HostStart(t) + 1, HostEnd(t))
            /\ IsErr(r) => r.err.input = t

\* a hostname followed by a port, parsed from all three kinds of string, last
\* from an owned one
C20_Witness ==
    /\ ParsedKinds = StringKinds
    /\ did.op = "parse"
    /\ did.kind # "str"
    /\ IsOk(did.result)
    /\ did.result.val.host[1].variant = "Hostname"
    /\ did.result.val.host[1].hostname # <<>>
    /\ HostEnd(outcomes.input) < Len(outcomes.input)

\* ------------------------------------------------------------------------
\* The parsers never leave the text

AmountParseOps == {"from_str", "try_from", "parse"}

Typed(result) == result.outcome \in {"ok", "err"}

\* C21: parsing a P2PAddress (from each kind of string) and parsing an Amount
\* end with a value or a typed error and never with a panic: every range the
\* parsers cut out of the text lies inside the text, which for the brackets
\* means that a bracketed host has at least two characters, and for the unit
\* that a text ending in " msat" has at least five
C21_NoIndexPanic ==
    /\ did.op \in AddrParseOps =>
           /\ Typed(did.result)
           /\ HasAt(did.input) =>
                  LET rest == HostPortPart(did.input)
                      host == HostPartOf(rest)
                  IN  /\ Len(IdentityPart(did.input)) + 1 <= Len(did.input)
                      /\ Len(host) <= Len(rest)
                      /\ IsBracketed(host) => 1 <= Len(host) - 1
    /\ \A k \in ParsedKinds : Typed(outcomes.results[k])
    /\ last.op \in AmountParseOps =>
           /\ Typed(last.result)
           /\ ends_with(last.input, Unit) => 0 <= Len(last.input) - 5

\* the unit alone was handed to Amount, and a lone '[' after a valid identity
\* to P2PAddress as an owned string
C21_Witness ==
    /\ last.op = "from_str"
    /\ last.input = Unit
    /\ IsErr(last.result)
    /\ did.op = "parse"
    /\ did.kind = "String"
    /\ ValidIdentity(did.input)
    /\ HostPortPart(did.input) = <<"[">>
    /\ IsOk(did.result)

\* ------------------------------------------------------------------------
\* An address without a host

EmptyHost == Host(HostInner_Hostname(<<>>))

\* C22: with a valid identity, "<id>@" is accepted as the hostname "" with port
\* 9735 and "<id>@:<port>" as the hostname "" with that port; such an address
\* is written "<id>@:<port>", and parsing that text gives the same address
C22_EmptyHost ==
    /\ (did.op = "parse" /\ HasAt(did.input) /\ ValidIdentity(did.input)) =>
           LET rest == HostPortPart(did.input)
           IN  /\ rest = <<>> =>
                      /\ IsOk(did.result)
                      /\ did.result.val.host = EmptyHost
                      /\ did.result.val.port = 9735
               /\ (rest # <<>> /\ Head(rest) = ":" /\ PortNumber(Tail(rest))) =>
                      /\ IsOk(did.result)
                      /\ did.result.val.host = EmptyHost
                      /\ Big(did.result.val.port) = DecValue(Unsigned(Tail(rest)))
    /\ (did.op = "to_string" /\ did.self.host = EmptyHost) =>
           /\ ~did.alternate =>
                  did.result = LowerCase(IdentityPart(outcomes.input)) \o <<"@", ":">>
                               \o Numeral(Big(did.self.port))
           /\ HostPortPart(did.result) = <<":">> \o Numeral(Big(did.self.port))
    /\ (did.op = "reparse" /\ did.before.host = EmptyHost) =>
           did.result = Ok(did.before)

\* "<id>@:80" was parsed, written and parsed again
C22_Witness ==
    /\ did.op = "reparse"
    /\ did.before.host = EmptyHost
    /\ did.before.port = 80
    /\ HostPortPart(outcomes.input) = <<":", "8", "0">>
    /\ did.input = outcomes.input
    /\ IsOk(did.result)

====
